---- MODULE Spec2Model ----
(***************************************************************************)
(* glreporter: the concurrent recursive fetch engine of internal/glclient  *)
(* (client.go) running on the bounded worker pool of internal/worker.      *)
(*                                                                         *)
(* A group is modelled by its numeric ID; the remote GitLab instance is a  *)
(* fixed tree of groups (parent), read through paginated listing calls.    *)
(***************************************************************************)
EXTENDS Naturals, Sequences, FiniteSets

\* ------------------------------------------------------------------ bounds
\* Largest number of groups of the remote tree (IDs 1..numGroups, root = 1).
MaxGroups == 5
\* Largest number of pool workers (the code fixes maxNumWorkers = 100).
MaxWorkers == 2
\* Items the remote serves per page (the code asks for maxPageSize = 50).
PageSize == 2
\* Largest number of listings that fail.
MaxFailures == 1
\* Largest number of groups of the tree an aggregator walks.
BulkGroups == 2
\* Largest number of projects (IDs 1..MaxProjects) of GetProjectsRecursively.
MaxProjects == 3
\* Largest number of tokens, triggers or variables of one node.
MaxItems == 3
\* Number of goroutines that submit jobs to a pool used directly.
NumSubmitters == 2
\* Largest number of jobs one of them submits.
JobsEach == 3
\* Largest number of groups of a call that is checked for how it starts.
EntryGroups == 4
\* Value at which the history counter of ListGroups requests saturates.
MaxRequests == 5
\* Largest number of projects (IDs 1..BulkProjects) below a token, trigger or
\* variable aggregator.
BulkProjects == 2
NumCalls == 2
\* Largest number of groups of the remote when several operations run at once.
TwoGroups == 3

\* --------------------------------------------------------- program constants
taskQueueBufferMultiplier == 2

VARIABLES
    \* ---- the call and the remote data, fixed by Init
    op,          \* the top-level operation that is called ("none": a command
                 \* has not called one)
    cmd,         \* the command that is run ("none": the Client is called directly)
    projectArg,  \* the command was given a --project-id
    nWorkers,    \* Pool.workers
    numGroups,   \* remote: number of groups
    parent,      \* remote: parent[g] for g in 2..numGroups
    rootFail,    \* remote: the lookup of the target (GetGroup / GetProject) fails
    subFail,     \* remote: subFail[g] = page of g's subgroup listing that fails, 0 = none
    projSet,     \* remote: projSet[g] = IDs of the projects listed for group g
    projOrder,   \* remote: the order in which a listing serves the projects of a
                 \* group: "asc" or "desc" by ID
    projFail,    \* remote: projFail[g] = page of g's project listing that fails, 0 = none
    itemLen,     \* remote: itemLen[x] = number of tokens/triggers/variables of node x
    itemFail,    \* remote: itemFail[x] = page of x's item listing that fails, 0 = none
    inactive,    \* remote: the ranks of the tokens of a node whose Active flag is false
    remoteFilters,   \* remote: the state filter of a token listing is honoured
    includeInactive, \* the includeInactive argument of a token operation
    idKind,      \* the groupID argument: "valid", "empty" ("") or "invalid" (e.g. "0")
    flatFail,    \* remote: page of the flat group listing that fails, 0 = none
    dangling,    \* remote: the last page of the flat listing declares a cursor to a
                 \* page that does not exist ("none" = it does not), and how the
                 \* request for that page is answered: "stop", "err" or "again"
    \* ---- the pool
    taskQueue,   \* Pool.taskQueue: FIFO of submitted tasks
    wk,          \* per worker goroutine: its position in Pool.worker and in its task
    \* ---- GetGroupsRecursively
    groups,      \* the shared slice (guarded by mu)
    wg,          \* the sync.WaitGroup counter
    \* ---- GetProjectsRecursively
    projectMap,  \* the shared map (guarded by mapMu)
    wgP,         \* the sync.WaitGroup counter
    projects,    \* the sorted slice it returns
    \* ---- the token, trigger and variable aggregators
    items,       \* the shared slice (guarded by mu)
    wgI,         \* the sync.WaitGroup counter
    \* ---- the calling goroutine
    caller,      \* its position in the top-level operation
    ci,          \* index of the fan-out loop (for _, x := range ...)
    ret,         \* what the top-level operation returned
    \* ---- history
    listCount,   \* ListSubGroups requests issued per group
    submitCount, \* subgroup tasks handed to Pool.Submit per group
    \* ---- GetAllGroups and the lookups
    optPage,     \* opt.Page of GetAllGroups
    allGroups,   \* allGroups of GetAllGroups
    allListed,   \* allTokens (allTriggers, allVariables) of the list* helper a
                 \* single-target operation called; optPage is its opt.Page
    getCount,    \* history: GetGroup / GetProject requests issued
    flatCount,   \* history: ListGroups requests issued (saturates at MaxRequests)
    \* ---- a pool used directly (NewPool, Submit, Shutdown)
    closed,      \* Pool.taskQueue has been closed
    runs,        \* history: runs[j] = how often job j was executed
    sub,         \* per submitting goroutine: its position and its jobs left
    \* ---- several top-level operations at once
    calls        \* per concurrent call: its position and its locals (nodes, the
                 \* aggregate, the sync.WaitGroup counter, what it returned)

remoteVars == <<op, cmd, projectArg, nWorkers, numGroups, parent, rootFail, subFail,
                projSet, projOrder, projFail,
                itemLen, itemFail, inactive, remoteFilters, includeInactive,
                idKind, flatFail, dangling>>
poolVars == <<taskQueue, wk>>
walkVars == <<groups, wg>>
projVars == <<projectMap, wgP, projects>>
itemVars == <<items, wgI>>
callVars == <<caller, ci, ret>>
histVars == <<listCount, submitCount>>
entryVars == <<optPage, allGroups, allListed, getCount, flatCount>>
shutVars == <<closed, runs, sub>>
vars == <<remoteVars, poolVars, walkVars, projVars, itemVars, callVars, histVars,
          entryVars, shutVars, calls>>

RootID == 1
\* mutant: NewPool starts one worker per slot of the queue
Workers_PerSlot == 1..(nWorkers * taskQueueBufferMultiplier)

\* NewPool: for range workers { go p.worker() }
Workers == 1..nWorkers
GroupIDs == 1..numGroups

\* ------------------------------------------------------------ the remote
Min(a, b) == IF a < b THEN a ELSE b

RECURSIVE SeqOfSet(_)
\* the elements of a finite set of numbers, ascending
SeqOfSet(S) ==
    IF S = {} THEN <<>>
    ELSE LET m == CHOOSE x \in S : \A y \in S : x <= y
         IN <<m>> \o SeqOfSet(S \ {m})

Children(g) == SeqOfSet({c \in GroupIDs : c # RootID /\ parent[c] = g})

\* number of pages of a listing of n items: an empty listing is one empty page
NumPages(n) == IF n = 0 THEN 1 ELSE (n + PageSize - 1) \div PageSize

\* one page of a listing: the items of the page and the next-page cursor
PageOf(all, page) ==
    [items |-> SubSeq(all, (page - 1) * PageSize + 1, Min(page * PageSize, Len(all))),
     next  |-> IF page * PageSize < Len(all) THEN page + 1 ELSE 0]

\* Groups.ListSubGroups(parentID, opt): (subgroups, resp, err)
ListSubGroups(g, page) ==
    IF subFail[g] = page
    THEN [err |-> TRUE, items |-> <<>>, next |-> 0]
    ELSE [err   |-> FALSE,
          items |-> PageOf(Children(g), page).items,
          next  |-> PageOf(Children(g), page).next]

RECURSIVE DescSeqOfSet(_)
\* the elements of a finite set of numbers, descending
DescSeqOfSet(S) ==
    IF S = {} THEN <<>>
    ELSE LET m == CHOOSE x \in S : \A y \in S : x >= y
         IN <<m>> \o DescSeqOfSet(S \ {m})

\* the orders in which a remote serves the projects of a group
ProjOrders == {"asc", "desc"}

\* the projects the remote lists for group g, in the order the remote serves
\* them: *gitlab.Project values, each listing call building its own, so a
\* value records the listing it came from
ProjList(g) ==
    LET ids == IF projOrder = "asc" THEN SeqOfSet(projSet[g])
               ELSE DescSeqOfSet(projSet[g])
    IN [i \in 1..Len(ids) |-> [id |-> ids[i], via |-> g]]

\* Groups.ListGroupProjects(groupID, opt): (groupProjects, resp, err)
ListGroupProjects(g, page) ==
    IF projFail[g] = page
    THEN [err |-> TRUE, items |-> <<>>, next |-> 0]
    ELSE [err   |-> FALSE,
          items |-> PageOf(ProjList(g), page).items,
          next  |-> PageOf(ProjList(g), page).next]

\* the tokens (triggers, variables) the remote holds for node x, in its
\* order; src records the node whose listing serves the item
ItemsOf(x) ==
    [i \in 1..itemLen[x] |-> [rank |-> i, active |-> i \notin inactive, src |-> x]]

IsActive(t) == t.active

\* ListGroupAccessTokens, ListProjectAccessTokens, ListPipelineTriggers,
\* ListVariables (x, opt): a remote that honours opt.State serves only the
\* active tokens when it is set; a stale one serves them all
ListItemsPage(x, page, stateActive) ==
    LET served == IF stateActive /\ remoteFilters
                  THEN SelectSeq(ItemsOf(x), IsActive)
                  ELSE ItemsOf(x)
    IN IF itemFail[x] = page
       THEN [err |-> TRUE, items |-> <<>>, next |-> 0]
       ELSE [err   |-> FALSE,
             items |-> PageOf(served, page).items,
             next  |-> PageOf(served, page).next]

\* ---------------------------------------------------- the list* helpers
\* &XWithY{X: item, YName: y.Name, YPath: ..., YWebURL: ...}: the item wrapped
\* with the identity of the node it was listed for
\* mutant: every item is wrapped with the identity of the first node
Wrap_FirstNode(x, t) == [owner |-> RootID, rank |-> t.rank, active |-> t.active, src |-> t.src]

\* owner stands for the name, path and URL fields, all copied from node x
Wrap(x, t) == [owner |-> x, rank |-> t.rank, active |-> t.active, src |-> t.src]

WrapAll(x, ts) == [i \in 1..Len(ts) |-> Wrap(x, ts[i])]

\* mutant: on err the helper returns the pages it has, without the error
PageTurn_Partial(x, page, acc, stateActive, recheck) ==
    LET r == ListItemsPage(x, page, stateActive)
        kept == IF recheck THEN SelectSeq(r.items, IsActive) ELSE r.items
    IN IF r.err THEN [err |-> FALSE, items |-> acc, next |-> 0]
       ELSE [err |-> FALSE, items |-> acc \o WrapAll(x, kept), next |-> r.next]

\* mutant: after a failed page the helper goes on with the following page
PageTurn_Resume(x, page, acc, stateActive, recheck) ==
    LET r == ListItemsPage(x, page, stateActive)
        kept == IF recheck THEN SelectSeq(r.items, IsActive) ELSE r.items
    IN IF r.err /\ page >= NumPages(itemLen[x])
       THEN [err |-> TRUE, items |-> <<>>, next |-> 0]
       ELSE IF r.err THEN [err |-> FALSE, items |-> acc, next |-> page + 1]
       ELSE [err |-> FALSE, items |-> acc \o WrapAll(x, kept), next |-> r.next]

\* one turn of the page loop the five list* helpers share: request opt.Page;
\* on err return nil and the error; else wrap the page's items and append
\* them (skipping the inactive ones when recheck).  next is resp.NextPage:
\* the loop breaks when it is 0, else opt.Page = resp.NextPage
PageTurn(x, page, acc, stateActive, recheck) ==
    LET r == ListItemsPage(x, page, stateActive)
        kept == IF recheck THEN SelectSeq(r.items, IsActive) ELSE r.items
    IN IF r.err THEN [err |-> TRUE, items |-> <<>>, next |-> 0]
       ELSE [err |-> FALSE, items |-> acc \o WrapAll(x, kept), next |-> r.next]

\* one turn of each helper, at opt.Page = page with acc collected so far
\* mutant: no request carries the state filter
listTokensForGroup_NoFilter(x, inc, page, acc) == PageTurn(x, page, acc, FALSE, FALSE)

\* opt.State = active unless includeInactive; every served token is wrapped
listTokensForGroup(x, inc, page, acc) == PageTurn(x, page, acc, ~inc, FALSE)

\* mutant: the state filter is the only filter, served tokens are not re-checked
listTokensForProject_NoRecheck(x, inc, page, acc) == PageTurn(x, page, acc, ~inc, FALSE)

\* opt.State = active unless includeInactive, and
\* if !includeInactive && !token.Active { continue }
listTokensForProject(x, inc, page, acc) == PageTurn(x, page, acc, ~inc, ~inc)

listTriggersForProject(x, page, acc) == PageTurn(x, page, acc, FALSE, FALSE)

listVariablesForProject(x, page, acc) == PageTurn(x, page, acc, FALSE, FALSE)

listVariablesForGroup(x, page, acc) == PageTurn(x, page, acc, FALSE, FALSE)

\* one turn of the page loop of fetchProjectsForGroupWithDedupe: on err it
\* returns what it has so far together with the error
fetchProjectsForGroupWithDedupe(g, page, acc) ==
    LET r == ListGroupProjects(g, page)
    IN IF r.err THEN [err |-> TRUE, items |-> acc, next |-> 0]
       ELSE [err |-> FALSE, items |-> acc \o r.items, next |-> r.next]

RECURSIVE ProjLoop(_, _, _)
\* fetchProjectsForGroupWithDedupe from opt.Page = page to its return; reqs is
\* the number of page requests it issues
ProjLoop(g, page, acc) ==
    LET r == fetchProjectsForGroupWithDedupe(g, page, acc)
    IN IF r.err \/ r.next = 0 THEN [err |-> r.err, items |-> r.items, reqs |-> 1]
       ELSE [ProjLoop(g, r.next, r.items) EXCEPT !.reqs = @ + 1]

\* ------------------------------------------------------- the operations
RecursiveItemOps == {"gtokens", "ptokens", "triggers", "pvars", "gvars"}
SingleOps == {"gtokens1", "ptokens1", "triggers1", "pvars1", "gvars1"}

\* the kind of sub-resource an operation collects
Kind(o) ==
    CASE o \in {"gtokens", "gtokens1"} -> "gtokens"
      [] o \in {"ptokens", "ptokens1"} -> "ptokens"
      [] o \in {"triggers", "triggers1"} -> "triggers"
      [] o \in {"pvars", "pvars1"} -> "pvars"
      [] o \in {"gvars", "gvars1"} -> "gvars"
      [] OTHER -> "none"

\* group tokens and group variables hang off groups, the rest off projects
IsGroupKind(k) == k \in {"gtokens", "gvars"}

\* one turn of the list* helper of each kind
ListFor(k, x, inc, page, acc) ==
    CASE k = "gtokens" -> listTokensForGroup(x, inc, page, acc)
      [] k = "ptokens" -> listTokensForProject(x, inc, page, acc)
      [] k = "triggers" -> listTriggersForProject(x, page, acc)
      [] k = "pvars" -> listVariablesForProject(x, page, acc)
      [] OTHER -> listVariablesForGroup(x, page, acc)

RECURSIVE PageLoop(_, _, _, _, _)
\* the list* helper of kind k from opt.Page = page to its return; reqs is the
\* number of page requests it issues
PageLoop(k, x, inc, page, acc) ==
    LET r == ListFor(k, x, inc, page, acc)
    IN IF r.err \/ r.next = 0 THEN [err |-> r.err, items |-> r.items, reqs |-> 1]
       ELSE [PageLoop(k, x, inc, r.next, r.items) EXCEPT !.reqs = @ + 1]

\* the error a recursive operation returns when its group walk failed
WalkErr(o) ==
    CASE o \in {"ptokens", "triggers", "pvars"} -> "failed to get projects recursively"
      [] o = "gvars" -> "failed to get groups recursively"
      [] OTHER -> "failed to get root group"

\* the error a single-target operation returns when the target lookup failed
TargetErr(o) ==
    CASE o = "gtokens1" -> "failed to get group info"
      [] o = "gvars1" -> "failed to get group"
      [] OTHER -> "failed to get project"

\* the error a single-target operation returns when its listing failed
ListErr(o) ==
    CASE o = "gtokens1" -> "failed to list group access tokens"
      [] o = "ptokens1" -> "failed to list tokens for project"
      [] o = "triggers1" -> "failed to list pipeline trigger tokens"
      [] o = "pvars1" -> "failed to list variables for project"
      [] OTHER -> "failed to list variables for group"

\* -------------------------------------------------------- the worker pool
\* NewPool: cap(taskQueue) = workers * taskQueueBufferMultiplier
QueueCap == nWorkers * taskQueueBufferMultiplier

IdleWorker == [pc |-> "idle", kind |-> "", id |-> 0, page |-> 0, subs |-> <<>>, next |-> 0]

\* the closure submitted for group g: defer wg.Done(); c.fetchSubgroups(g, ...)
SubgroupTask(g) == [kind |-> "subgroups", id |-> g]

\* mutant: Submit never blocks, the queue grows as needed
CanSubmit_Unbounded == TRUE

\* Pool.Submit: p.taskQueue <- task; blocks while the channel buffer is full
CanSubmit == Len(taskQueue) < QueueCap

Enqueue(q, task) == Append(q, task)

Bump(f, g) == [f EXCEPT ![g] = @ + 1]

\* the closure submitted by GetProjectsRecursively for one group
ProjectTask(g) == [kind |-> "projects", id |-> g]

\* the closure submitted by a token, trigger or variable aggregator for one node
ItemTask(x) == [kind |-> "items", id |-> x]

\* where a task starts: each closure first requests page 1 of its listing
FirstStep(kind) ==
    IF kind = "subgroups" THEN "list"
    ELSE IF kind = "projects" THEN "plist"
    ELSE IF kind = "job" THEN "run" ELSE "ilist"

\* Pool.worker: for task := range p.taskQueue { task() }
WorkerTake(w) ==
    /\ wk[w].pc = "idle"
    /\ taskQueue # <<>>
    /\ wk' = [wk EXCEPT ![w] = [pc |-> FirstStep(Head(taskQueue).kind),
                                 kind |-> Head(taskQueue).kind,
                                 id |-> Head(taskQueue).id, page |-> 1,
                                 subs |-> <<>>, next |-> 0]]
    /\ taskQueue' = Tail(taskQueue)
    /\ UNCHANGED <<remoteVars, walkVars, projVars, itemVars, callVars, histVars,
                   entryVars, shutVars, calls>>

\* --------------------------------------------------------- fetchSubgroups
\* where the page loop goes after the last subgroup of a page was submitted:
\* break (the task returns) when resp.NextPage == 0, else request NextPage
AfterPage(w, next) ==
    IF next = 0
    THEN [wk[w] EXCEPT !.pc = "ret", !.subs = <<>>]
    ELSE [wk[w] EXCEPT !.pc = "list", !.page = next, !.subs = <<>>]

\* mutant: the error of ListSubGroups is not checked, the page is used as served
FetchPage_IgnoreErr(w) ==
    /\ wk[w].pc = "list"
    /\ LET r == PageOf(Children(wk[w].id), wk[w].page)
       IN wk' = [wk EXCEPT ![w] = [@ EXCEPT !.pc = "append", !.subs = r.items, !.next = r.next]]
    /\ listCount' = Bump(listCount, wk[w].id)
    /\ UNCHANGED <<remoteVars, taskQueue, walkVars, projVars, itemVars, callVars, submitCount,
                   entryVars, shutVars, calls>>

\* subgroups, resp, err := ListSubGroups(parentID, opt); on err the task returns
FetchPage(w) ==
    /\ wk[w].pc = "list"
    /\ LET r == ListSubGroups(wk[w].id, wk[w].page)
       IN wk' = [wk EXCEPT ![w] =
                    IF r.err THEN [@ EXCEPT !.pc = "ret"]
                    ELSE [@ EXCEPT !.pc = "append", !.subs = r.items, !.next = r.next]]
    /\ listCount' = Bump(listCount, wk[w].id)
    /\ UNCHANGED <<remoteVars, taskQueue, walkVars, projVars, itemVars, callVars, submitCount,
                   entryVars, shutVars, calls>>

\* mutant: the page is put in front of the slice, moving what it holds
AppendAll_Front(gs, subgroups) == subgroups \o gs

\* mutant: only the first subgroup of a page is appended
AppendAll_FirstOnly(gs, subgroups) ==
    IF subgroups = <<>> THEN gs ELSE Append(gs, subgroups[1])

\* *groups = append(*groups, subgroups...)
AppendAll(gs, subgroups) == gs \o subgroups

\* mutant: the page is appended and the next page requested; no task is
\* submitted for the subgroups of the page
AppendPage_NoFanOut(w) ==
    /\ wk[w].pc = "append"
    /\ groups' = AppendAll(groups, wk[w].subs)
    /\ wk' = [wk EXCEPT ![w] = AfterPage(w, wk[w].next)]
    /\ UNCHANGED <<remoteVars, taskQueue, wg, projVars, itemVars, callVars, histVars,
                   entryVars, shutVars, calls>>

\* mu.Lock(); *groups = append(*groups, subgroups...); mu.Unlock()
AppendPage(w) ==
    /\ wk[w].pc = "append"
    /\ groups' = AppendAll(groups, wk[w].subs)
    /\ wk' = [wk EXCEPT ![w] =
                 IF wk[w].subs # <<>> THEN [@ EXCEPT !.pc = "add"]
                 ELSE AfterPage(w, wk[w].next)]
    /\ UNCHANGED <<remoteVars, taskQueue, wg, projVars, itemVars, callVars, histVars,
                   entryVars, shutVars, calls>>

\* mutant: the child is submitted without being registered with the join counter
AddChild_NoAdd(w) ==
    /\ wk[w].pc = "add"
    /\ wk' = [wk EXCEPT ![w].pc = "submit"]
    /\ UNCHANGED <<remoteVars, taskQueue, walkVars, projVars, itemVars, callVars, histVars,
                   entryVars, shutVars, calls>>

\* wg.Add(1) for the next subgroup of the page
AddChild(w) ==
    /\ wk[w].pc = "add"
    /\ wg' = wg + 1
    /\ wk' = [wk EXCEPT ![w].pc = "submit"]
    /\ UNCHANGED <<remoteVars, taskQueue, groups, projVars, itemVars, callVars, histVars,
                   entryVars, shutVars, calls>>

\* mutant: the task of a subgroup is handed to the pool twice
SubmitChild_Twice(w) ==
    /\ wk[w].pc = "submit"
    /\ Len(taskQueue) + 2 <= QueueCap
    /\ taskQueue' = Enqueue(Enqueue(taskQueue, SubgroupTask(Head(wk[w].subs))),
                            SubgroupTask(Head(wk[w].subs)))
    /\ submitCount' = Bump(Bump(submitCount, Head(wk[w].subs)), Head(wk[w].subs))
    /\ wk' = [wk EXCEPT ![w] =
                 IF Tail(wk[w].subs) # <<>> THEN [@ EXCEPT !.pc = "add", !.subs = Tail(@)]
                 ELSE AfterPage(w, wk[w].next)]
    /\ UNCHANGED <<remoteVars, walkVars, projVars, itemVars, callVars, listCount,
                   entryVars, shutVars, calls>>

\* c.pool.Submit(func() { defer wg.Done(); c.fetchSubgroups(subgroupID, ...) })
SubmitChild(w) ==
    /\ wk[w].pc = "submit"
    /\ CanSubmit
    /\ taskQueue' = Enqueue(taskQueue, SubgroupTask(Head(wk[w].subs)))
    /\ submitCount' = Bump(submitCount, Head(wk[w].subs))
    /\ wk' = [wk EXCEPT ![w] =
                 IF Tail(wk[w].subs) # <<>> THEN [@ EXCEPT !.pc = "add", !.subs = Tail(@)]
                 ELSE AfterPage(w, wk[w].next)]
    /\ UNCHANGED <<remoteVars, walkVars, projVars, itemVars, callVars, listCount,
                   entryVars, shutVars, calls>>

\* the task returns: the deferred wg.Done() runs and the worker goes back to
\* receiving from the queue
TaskDone(w) ==
    /\ wk[w].pc = "ret"
    /\ wg' = IF wk[w].kind = "subgroups" THEN wg - 1 ELSE wg
    /\ wgP' = IF wk[w].kind = "projects" THEN wgP - 1 ELSE wgP
    /\ wgI' = IF wk[w].kind = "items" THEN wgI - 1 ELSE wgI
    /\ wk' = [wk EXCEPT ![w] = IdleWorker]
    /\ UNCHANGED <<remoteVars, taskQueue, groups, projectMap, projects, items,
                   callVars, histVars, entryVars, shutVars, calls>>

\* --------------------------------------------------- GetGroupsRecursively
NoReturn == [done |-> FALSE, isNil |-> TRUE, items |-> <<>>, err |-> ""]

\* mutant: the error of GetGroup is not checked
CallGetGroup_IgnoreErr ==
    /\ caller = "start"
    /\ op \notin SingleOps
    /\ idKind # "empty"
    /\ caller' = "add"
    /\ groups' = <<RootID>>
    /\ getCount' = getCount + 1
    /\ UNCHANGED <<remoteVars, poolVars, wg, projVars, itemVars, ci, ret, histVars,
                   optPage, allGroups, allListed, flatCount, shutVars, calls>>

\* rootGroup, _, err := c.client.Groups.GetGroup(groupID, nil)
\* on err: return nil, "failed to get root group"; else groups = [rootGroup]
CallGetGroup ==
    /\ caller = "start"
    /\ op \notin SingleOps
    /\ idKind # "empty"
    /\ IF rootFail
       THEN /\ caller' = "returned"
            /\ ret' = [done |-> TRUE, isNil |-> TRUE, items |-> <<>>,
                       err |-> WalkErr(op)]
            /\ UNCHANGED groups
       ELSE /\ caller' = "add"
            /\ groups' = AppendAll(groups, <<RootID>>)
            /\ UNCHANGED ret
    /\ getCount' = getCount + 1
    /\ UNCHANGED <<remoteVars, poolVars, wg, projVars, itemVars, ci, histVars,
                   optPage, allGroups, allListed, flatCount, shutVars, calls>>

\* wg.Add(1)
CallAdd ==
    /\ caller = "add"
    /\ wg' = wg + 1
    /\ caller' = "submit"
    /\ UNCHANGED <<remoteVars, poolVars, groups, projVars, itemVars, ci, ret, histVars,
                   entryVars, shutVars, calls>>

\* c.pool.Submit(func() { defer wg.Done(); c.fetchSubgroups(groupID, ...) })
CallSubmit ==
    /\ caller = "submit"
    /\ CanSubmit
    /\ taskQueue' = Enqueue(taskQueue, SubgroupTask(RootID))
    /\ submitCount' = Bump(submitCount, RootID)
    /\ caller' = "wait"
    /\ UNCHANGED <<remoteVars, wk, walkVars, projVars, itemVars, ci, ret, listCount,
                   entryVars, shutVars, calls>>

\* wg.Wait() returns when the counter is zero
WaitDone == wg = 0

\* wg.Wait(); return groups, nil.  GetGroupsRecursively itself returns here;
\* an aggregator that called it goes on to its fan-out loop over the groups
\* (GetProjectsRecursively, also when called by a project-level aggregator).
CallWait ==
    /\ caller = "wait"
    /\ WaitDone
    /\ IF op = "groups"
       THEN /\ caller' = "returned"
            /\ ret' = [done |-> TRUE, isNil |-> FALSE, items |-> groups, err |-> ""]
            /\ UNCHANGED ci
       ELSE /\ caller' = IF IsGroupKind(Kind(op)) THEN "iadd" ELSE "padd"
            /\ ci' = 1
            /\ UNCHANGED ret
    /\ UNCHANGED <<remoteVars, poolVars, walkVars, projVars, itemVars, histVars,
                   entryVars, shutVars, calls>>

\* ------------------------------------------------------------ GetAllGroups
\* Groups.ListGroups(opt): the accessible groups in ID order, PageSize a page.
\* With a dangling cursor the last page declares NextPage = last + 1; the
\* request for a page that does not exist is answered with an empty page and
\* NextPage 0 ("stop"), with an error ("err"), or with an empty page that
\* declares a cursor to the other of the two pages after the last ("again").
ListGroups(page) ==
    LET all == SeqOfSet(GroupIDs)
        last == NumPages(Len(all))
    IN IF flatFail = page \/ (page > last /\ dangling = "err")
       THEN [err |-> TRUE, items |-> <<>>, next |-> 0]
       ELSE IF page > last
       THEN [err |-> FALSE, items |-> <<>>,
             next |-> IF dangling # "again" THEN 0
                      ELSE IF page = last + 1 THEN last + 2 ELSE last + 1]
       ELSE [err   |-> FALSE,
             items |-> PageOf(all, page).items,
             next  |-> IF page = last /\ dangling # "none"
                       THEN last + 1 ELSE PageOf(all, page).next]

\* the error an operation returns when the flat listing failed
FlatErr(o) ==
    CASE o \in {"ptokens", "triggers", "pvars"} -> "failed to get projects recursively"
      [] o = "gvars" -> "failed to get groups recursively"
      [] OTHER -> "failed to list groups"

\* mutant: the page replaces what was collected so far
FlatAppend_Overwrite(acc, page) == page

\* allGroups = append(allGroups, groups...)
FlatAppend(acc, page) == acc \o page

\* mutant: the empty identifier is looked up like any other before the listing
CallGetAllGroups_Lookup ==
    /\ caller = "start"
    /\ op \notin SingleOps
    /\ idKind = "empty"
    /\ caller' = "flat"
    /\ optPage' = 1
    /\ allGroups' = <<>>
    /\ getCount' = getCount + 1
    /\ UNCHANGED <<remoteVars, poolVars, walkVars, projVars, itemVars, ci, ret,
                   histVars, allListed, flatCount, shutVars, calls>>

\* if groupID == "" { return c.GetAllGroups() }: opt.Page = 1; var allGroups
CallGetAllGroups ==
    /\ caller = "start"
    /\ op \notin SingleOps
    /\ idKind = "empty"
    /\ caller' = "flat"
    /\ optPage' = 1
    /\ allGroups' = <<>>
    /\ UNCHANGED <<remoteVars, poolVars, walkVars, projVars, itemVars, ci, ret,
                   histVars, allListed, getCount, flatCount, shutVars, calls>>

\* one turn of the loop of GetAllGroups: request opt.Page; on err return nil
\* and the error; else append the page and either go on with resp.NextPage or,
\* when it is 0, return allGroups.  GetGroupsRecursively returns what
\* GetAllGroups returned; an aggregator goes on to its fan-out loop over it,
\* which a listing without groups leaves at once for wg.Wait().
FlatPage ==
    /\ caller = "flat"
    /\ flatCount' = Min(flatCount + 1, MaxRequests)
    /\ LET r == ListGroups(optPage)
           acc == FlatAppend(allGroups, r.items)
       IN IF r.err
          THEN /\ caller' = "returned"
               /\ ret' = [done |-> TRUE, isNil |-> TRUE, items |-> <<>>,
                          err |-> FlatErr(op)]
               /\ UNCHANGED <<optPage, allGroups, groups, ci>>
          ELSE IF r.next # 0
          THEN /\ optPage' = r.next
               /\ allGroups' = acc
               /\ UNCHANGED <<caller, ret, groups, ci>>
          ELSE /\ allGroups' = acc
               /\ UNCHANGED optPage
               /\ IF op = "groups"
                  THEN /\ caller' = "returned"
                       /\ ret' = [done |-> TRUE, isNil |-> acc = <<>>,
                                  items |-> acc, err |-> ""]
                       /\ UNCHANGED <<groups, ci>>
                  ELSE /\ groups' = acc
                       /\ caller' = IF IsGroupKind(Kind(op))
                                    THEN (IF acc = <<>> THEN "iwait" ELSE "iadd")
                                    ELSE (IF acc = <<>> THEN "pwait" ELSE "padd")
                       /\ ci' = IF acc = <<>> THEN 0 ELSE 1
                       /\ UNCHANGED ret
    /\ UNCHANGED <<remoteVars, poolVars, wg, projVars, itemVars, histVars,
                   allListed, getCount, shutVars, calls>>

\* ------------------------------------------------- GetProjectsRecursively
\* mutant: the task looks into the shared map while it fetches and drops the
\* projects it finds there
FetchProjects_SkipKnown(w) ==
    /\ wk[w].pc = "plist"
    /\ LET r == fetchProjectsForGroupWithDedupe(wk[w].id, wk[w].page, wk[w].subs)
           new == SelectSeq(r.items, LAMBDA pr : pr.id \notin DOMAIN projectMap)
       IN wk' = [wk EXCEPT ![w] =
                    IF r.err THEN [@ EXCEPT !.pc = "ret", !.subs = new]
                    ELSE IF r.next = 0 THEN [@ EXCEPT !.pc = "pmerge", !.subs = new]
                    ELSE [@ EXCEPT !.page = r.next, !.subs = new]]
    /\ UNCHANGED <<remoteVars, taskQueue, walkVars, projVars, itemVars, callVars, histVars,
                   entryVars, shutVars, calls>>

\* groupProjects, err := c.fetchProjectsForGroupWithDedupe(group.FullPath),
\* one page request of its loop per step: on err it returns and the closure
\* returns without touching the map; else the page is appended and the loop
\* goes on with resp.NextPage or, when that is 0, returns allProjects
FetchProjects(w) ==
    /\ wk[w].pc = "plist"
    /\ LET r == fetchProjectsForGroupWithDedupe(wk[w].id, wk[w].page, wk[w].subs)
       IN wk' = [wk EXCEPT ![w] =
                    IF r.err THEN [@ EXCEPT !.pc = "ret", !.subs = r.items]
                    ELSE IF r.next = 0 THEN [@ EXCEPT !.pc = "pmerge", !.subs = r.items]
                    ELSE [@ EXCEPT !.page = r.next, !.subs = r.items]]
    /\ UNCHANGED <<remoteVars, taskQueue, walkVars, projVars, itemVars, callVars, histVars,
                   entryVars, shutVars, calls>>

\* mutant: the project is stored whether or not its ID is in the map
PutIfAbsent_Overwrite(pm, project) ==
    [k \in DOMAIN pm \cup {project.id} |->
        IF k = project.id THEN project ELSE pm[k]]

\* if _, exists := projectMap[project.ID]; !exists { projectMap[project.ID] = project }
PutIfAbsent(pm, project) ==
    IF project.id \in DOMAIN pm THEN pm
    ELSE [k \in DOMAIN pm \cup {project.id} |->
             IF k = project.id THEN project ELSE pm[k]]

\* mutant: the task stores its own projects over the map instead of merging
MergeInto_LostUpdate(pm, groupProjects) ==
    [k \in {groupProjects[i].id : i \in DOMAIN groupProjects} |->
        CHOOSE pr \in {groupProjects[i] : i \in DOMAIN groupProjects} : pr.id = k]

RECURSIVE MergeInto(_, _)
\* for _, project := range groupProjects { ... }
MergeInto(pm, groupProjects) ==
    IF groupProjects = <<>> THEN pm
    ELSE MergeInto(PutIfAbsent(pm, Head(groupProjects)), Tail(groupProjects))

\* mapMu.Lock(); merge; mapMu.Unlock()
MergeProjects(w) ==
    /\ wk[w].pc = "pmerge"
    /\ projectMap' = MergeInto(projectMap, wk[w].subs)
    /\ wk' = [wk EXCEPT ![w] = [@ EXCEPT !.pc = "ret", !.subs = <<>>]]
    /\ UNCHANGED <<remoteVars, taskQueue, walkVars, wgP, projects, itemVars,
                   callVars, histVars, entryVars, shutVars, calls>>

\* for _, group := range groups { wg.Add(1) ...
ProjAdd ==
    /\ caller = "padd"
    /\ wgP' = wgP + 1
    /\ caller' = "psubmit"
    /\ UNCHANGED <<remoteVars, poolVars, walkVars, projectMap, projects, itemVars,
                   ci, ret, histVars, entryVars, shutVars, calls>>

\* ... c.pool.Submit(func() { defer wg.Done(); ... }) }
ProjSubmit ==
    /\ caller = "psubmit"
    /\ CanSubmit
    /\ taskQueue' = Enqueue(taskQueue, ProjectTask(groups[ci]))
    /\ IF ci < Len(groups)
       THEN ci' = ci + 1 /\ caller' = "padd"
       ELSE ci' = 0 /\ caller' = "pwait"
    /\ UNCHANGED <<remoteVars, wk, walkVars, projVars, itemVars, ret, histVars,
                   entryVars, shutVars, calls>>

\* the orders in which a range over a map with key set S may visit it
Orders(S) ==
    {f \in [1..Cardinality(S) -> S] : \A i, j \in 1..Cardinality(S) : f[i] = f[j] => i = j}

RECURSIVE InsertByID(_, _)
\* project p put into an ID-sorted sequence, before the first larger ID
InsertByID(sorted, pr) ==
    IF sorted = <<>> THEN <<pr>>
    ELSE IF pr.id < Head(sorted).id THEN <<pr>> \o sorted
    ELSE <<Head(sorted)>> \o InsertByID(Tail(sorted), pr)

\* mutant: the slice is returned in the order the map was ranged over
SortByID_NoSort(ps) == ps

RECURSIVE SortByID(_)
\* sort.Slice(projects, func(i, j int) bool { return projects[i].ID < projects[j].ID })
SortByID(ps) ==
    IF ps = <<>> THEN <<>>
    ELSE InsertByID(SortByID(Tail(ps)), Head(ps))

\* wg.Wait(); the map is ranged over into a slice, in any order, and the slice
\* is sorted by ID.  GetProjectsRecursively returns it; a project-level
\* aggregator goes on to its fan-out loop over it.
ProjWait ==
    /\ caller = "pwait"
    /\ wgP = 0
    /\ \E order \in Orders(DOMAIN projectMap) :
          projects' = SortByID([i \in 1..Len(order) |-> projectMap[order[i]]])
    /\ IF op = "projects"
       THEN /\ caller' = "returned"
            /\ ret' = [done |-> TRUE, isNil |-> FALSE, items |-> projects', err |-> ""]
            /\ UNCHANGED ci
       ELSE /\ caller' = IF projects' = <<>> THEN "iwait" ELSE "iadd"
            /\ ci' = IF projects' = <<>> THEN 0 ELSE 1
            /\ UNCHANGED ret
    /\ UNCHANGED <<remoteVars, poolVars, walkVars, projectMap, wgP, itemVars, histVars,
                   entryVars, shutVars, calls>>

\* ------------------------------- the token, trigger, variable aggregators
\* the node collection the fan-out loop ranges over: the groups of the walk
\* for group tokens and group variables, else the projects
Nodes ==
    IF IsGroupKind(Kind(op)) THEN groups
    ELSE [i \in 1..Len(projects) |-> projects[i].id]

\* fetchTokensForGroup, fetchTokensForProject, fetchTriggersForProject,
\* fetchVariablesForProject, fetchVariablesForGroup: xs, err := c.list...(),
\* one page request of the helper's loop per step: on err the helper returns
\* nil and the task returns without touching the shared slice; else the page
\* is appended and the loop goes on with resp.NextPage or, when that is 0,
\* returns what it has collected
FetchItems(w) ==
    /\ wk[w].pc = "ilist"
    /\ LET r == ListFor(Kind(op), wk[w].id, includeInactive, wk[w].page, wk[w].subs)
       IN wk' = [wk EXCEPT ![w] =
                    IF r.err THEN [@ EXCEPT !.pc = "ret", !.subs = r.items]
                    ELSE IF r.next = 0 THEN [@ EXCEPT !.pc = "iappend", !.subs = r.items]
                    ELSE [@ EXCEPT !.page = r.next, !.subs = r.items]]
    /\ UNCHANGED <<remoteVars, taskQueue, walkVars, projVars, itemVars, callVars, histVars,
                   entryVars, shutVars, calls>>

\* mutant: the append is not guarded, the slice read before another task's
\* append is written back: that task's items are lost
AppendItems_Lost(w) ==
    /\ wk[w].pc = "iappend"
    /\ items' = wk[w].subs
    /\ wk' = [wk EXCEPT ![w] = [@ EXCEPT !.pc = "ret", !.subs = <<>>]]
    /\ UNCHANGED <<remoteVars, taskQueue, walkVars, projVars, wgI, callVars, histVars,
                   entryVars, shutVars, calls>>

\* mutant: the items of a task are stored one by one, the first in front of
\* what the slice holds and the others behind it
AppendItems_Split(w) ==
    /\ wk[w].pc = "iappend"
    /\ items' = IF wk[w].subs = <<>> THEN items
                ELSE <<Head(wk[w].subs)>> \o items \o Tail(wk[w].subs)
    /\ wk' = [wk EXCEPT ![w] = [@ EXCEPT !.pc = "ret", !.subs = <<>>]]
    /\ UNCHANGED <<remoteVars, taskQueue, walkVars, projVars, wgI, callVars, histVars,
                   entryVars, shutVars, calls>>

\* mu.Lock(); *tokens = append(*tokens, groupTokens...); mu.Unlock()
AppendItems(w) ==
    /\ wk[w].pc = "iappend"
    /\ items' = items \o wk[w].subs
    /\ wk' = [wk EXCEPT ![w] = [@ EXCEPT !.pc = "ret", !.subs = <<>>]]
    /\ UNCHANGED <<remoteVars, taskQueue, walkVars, projVars, wgI, callVars, histVars,
                   entryVars, shutVars, calls>>

\* mutant: a task is registered twice with the join counter
ItemAdd_Double ==
    /\ caller = "iadd"
    /\ wgI' = wgI + 2
    /\ caller' = "isubmit"
    /\ UNCHANGED <<remoteVars, poolVars, walkVars, projVars, items, ci, ret, histVars,
                   entryVars, shutVars, calls>>

\* for _, node := range nodes { wg.Add(1) ...
ItemAdd ==
    /\ caller = "iadd"
    /\ wgI' = wgI + 1
    /\ caller' = "isubmit"
    /\ UNCHANGED <<remoteVars, poolVars, walkVars, projVars, items, ci, ret, histVars,
                   entryVars, shutVars, calls>>

\* ... c.pool.Submit(func() { defer wg.Done(); c.fetch...(id, node, ...) }) }
ItemSubmit ==
    /\ caller = "isubmit"
    /\ CanSubmit
    /\ taskQueue' = Enqueue(taskQueue, ItemTask(Nodes[ci]))
    /\ IF ci < Len(Nodes)
       THEN ci' = ci + 1 /\ caller' = "iadd"
       ELSE ci' = 0 /\ caller' = "iwait"
    /\ UNCHANGED <<remoteVars, wk, walkVars, projVars, itemVars, ret, histVars,
                   entryVars, shutVars, calls>>

\* wg.Wait(); return allTokens, nil (a slice nothing was appended to is nil)
ItemWait ==
    /\ caller = "iwait"
    /\ wgI = 0
    /\ caller' = "returned"
    /\ ret' = [done |-> TRUE, isNil |-> items = <<>>, items |-> items, err |-> ""]
    /\ UNCHANGED <<remoteVars, poolVars, walkVars, projVars, itemVars, ci, histVars,
                   entryVars, shutVars, calls>>

\* -------------------------------------------- the single-target operations
\* the node a single-target operation is called for
TargetID == 1

\* mutant: the error of the target lookup is not checked
CallGetTarget_IgnoreErr ==
    /\ caller = "start"
    /\ op \in SingleOps
    /\ caller' = "list1"
    /\ optPage' = 1
    /\ allListed' = <<>>
    /\ getCount' = getCount + 1
    /\ UNCHANGED <<remoteVars, poolVars, walkVars, projVars, itemVars, ci, ret,
                   histVars, allGroups, flatCount, shutVars, calls>>

\* group, _, err := c.client.Groups.GetGroup(groupID, nil) (or GetProject);
\* on err: return nil and the error; else the list* helper is entered:
\* opt.Page = 1, var allTokens
CallGetTarget ==
    /\ caller = "start"
    /\ op \in SingleOps
    /\ IF rootFail
       THEN /\ caller' = "returned"
            /\ ret' = [done |-> TRUE, isNil |-> TRUE, items |-> <<>>, err |-> TargetErr(op)]
            /\ UNCHANGED <<optPage, allListed>>
       ELSE /\ caller' = "list1"
            /\ optPage' = 1
            /\ allListed' = <<>>
            /\ UNCHANGED ret
    /\ getCount' = getCount + 1
    /\ UNCHANGED <<remoteVars, poolVars, walkVars, projVars, itemVars, ci, histVars,
                   allGroups, flatCount, shutVars, calls>>

\* return c.list...(id, node), one page request of the helper's loop per
\* step: on err nil and the error are returned; else the page is appended and
\* the loop goes on with resp.NextPage or, when that is 0, the list is returned
CallListSingle ==
    /\ caller = "list1"
    /\ LET r == ListFor(Kind(op), TargetID, includeInactive, optPage, allListed)
       IN IF r.err
          THEN /\ caller' = "returned"
               /\ ret' = [done |-> TRUE, isNil |-> TRUE, items |-> <<>>,
                          err |-> ListErr(op)]
               /\ UNCHANGED <<optPage, allListed>>
          ELSE IF r.next # 0
          THEN /\ optPage' = r.next
               /\ allListed' = r.items
               /\ UNCHANGED <<caller, ret>>
          ELSE /\ caller' = "returned"
               /\ allListed' = r.items
               /\ ret' = [done |-> TRUE, isNil |-> r.items = <<>>,
                          items |-> r.items, err |-> ""]
               /\ UNCHANGED optPage
    /\ UNCHANGED <<remoteVars, poolVars, walkVars, projVars, itemVars, ci, histVars,
                   allGroups, getCount, flatCount, shutVars, calls>>

\* ------------------------------------------- a pool used directly (jobs)
\* the jobs of submitter s are numbered (s-1)*JobsEach + 1 .. s*JobsEach
JobIDs == 1..(NumSubmitters * JobsEach)

JobID(s, k) == (s - 1) * JobsEach + k

\* the closure handed to Submit: defer wg.Done(); counter++ under mu
JobTask(j) == [kind |-> "job", id |-> j]

\* the submitter of job j
OwnerOf(j) == ((j - 1) \div JobsEach) + 1

\* for range N { wg.Add(1) ...
JobAdd(s) ==
    /\ sub[s].pc = "add"
    /\ sub' = [sub EXCEPT ![s] = [@ EXCEPT !.pc = "submit", !.pending = @ + 1]]
    /\ UNCHANGED <<remoteVars, poolVars, walkVars, projVars, itemVars, callVars,
                   histVars, entryVars, closed, runs, calls>>

\* mutant: a send on the closed queue is accepted like any other
JobSubmit_AfterClose(s) ==
    /\ sub[s].pc = "submit"
    /\ CanSubmit
    /\ taskQueue' = Enqueue(taskQueue, JobTask(JobID(s, sub[s].total - sub[s].left + 1)))
    /\ sub' = [sub EXCEPT ![s] = [@ EXCEPT !.left = @ - 1,
                                   !.pc = IF sub[s].left = 1 THEN "wait" ELSE "add"]]
    /\ UNCHANGED <<remoteVars, wk, walkVars, projVars, itemVars, callVars,
                   histVars, entryVars, closed, runs, calls>>

\* ... pool.Submit(func() { ... }) }: p.taskQueue <- task.  A send on a closed
\* channel panics, whether or not the buffer has room; nothing recovers the
\* panic, so the process ends with every goroutine
JobSubmit(s) ==
    /\ sub[s].pc = "submit"
    /\ IF closed
       THEN /\ sub' = [t \in DOMAIN sub |->
                         [sub[t] EXCEPT !.pc = IF t = s THEN "panic" ELSE "dead"]]
            /\ wk' = [w \in DOMAIN wk |-> [wk[w] EXCEPT !.pc = "dead"]]
            /\ UNCHANGED taskQueue
       ELSE /\ CanSubmit
            /\ taskQueue' = Enqueue(taskQueue,
                                    JobTask(JobID(s, sub[s].total - sub[s].left + 1)))
            /\ sub' = [sub EXCEPT ![s] = [@ EXCEPT !.left = @ - 1,
                                           !.pc = IF sub[s].left = 1 THEN "wait" ELSE "add"]]
            /\ UNCHANGED wk
    /\ UNCHANGED <<remoteVars, walkVars, projVars, itemVars, callVars,
                   histVars, entryVars, closed, runs, calls>>

\* wg.Wait()
JobWait(s) ==
    /\ sub[s].pc = "wait"
    /\ sub[s].pending = 0
    /\ sub' = [sub EXCEPT ![s] = [@ EXCEPT !.pc = "done"]]
    /\ UNCHANGED <<remoteVars, poolVars, walkVars, projVars, itemVars, callVars,
                   histVars, entryVars, closed, runs, calls>>

\* the body of a job: mu.Lock(); counter++; mu.Unlock()
RunJob(w) ==
    /\ wk[w].pc = "run"
    /\ runs' = [runs EXCEPT ![wk[w].id] = @ + 1]
    /\ wk' = [wk EXCEPT ![w] = [@ EXCEPT !.pc = "jdone"]]
    /\ UNCHANGED <<remoteVars, taskQueue, walkVars, projVars, itemVars, callVars,
                   histVars, entryVars, closed, sub, calls>>

\* defer wg.Done() of a job; the worker goes back to its range loop
JobDone(w) ==
    /\ wk[w].pc = "jdone"
    /\ sub' = [sub EXCEPT ![OwnerOf(wk[w].id)] = [@ EXCEPT !.pending = @ - 1]]
    /\ wk' = [wk EXCEPT ![w] = IdleWorker]
    /\ UNCHANGED <<remoteVars, taskQueue, walkVars, projVars, itemVars, callVars,
                   histVars, entryVars, closed, runs, calls>>

\* Pool.Shutdown: close(p.taskQueue), called once no goroutine submits any more
Shutdown ==
    /\ ~closed
    /\ \A s \in DOMAIN sub : sub[s].pc \in {"wait", "done"}
    /\ closed' = TRUE
    /\ UNCHANGED <<remoteVars, poolVars, walkVars, projVars, itemVars, callVars,
                   histVars, entryVars, runs, sub, calls>>

\* Pool.Shutdown called at any moment, also while goroutines still submit
ShutdownAnyTime ==
    /\ ~closed
    /\ \E s \in DOMAIN sub : sub[s].pc \notin {"panic", "dead"}
    /\ closed' = TRUE
    /\ UNCHANGED <<remoteVars, poolVars, walkVars, projVars, itemVars, callVars,
                   histVars, entryVars, runs, sub, calls>>

\* mutant: a worker leaves its loop as soon as the queue is closed
WorkerExit_Eager(w) ==
    /\ wk[w].pc = "idle"
    /\ closed
    /\ wk' = [wk EXCEPT ![w] = [@ EXCEPT !.pc = "exited"]]
    /\ UNCHANGED <<remoteVars, taskQueue, walkVars, projVars, itemVars, callVars,
                   histVars, entryVars, shutVars, calls>>

\* Pool.worker: the range over a closed channel ends once it is drained
WorkerExit(w) ==
    /\ wk[w].pc = "idle"
    /\ closed
    /\ taskQueue = <<>>
    /\ wk' = [wk EXCEPT ![w] = [@ EXCEPT !.pc = "exited"]]
    /\ UNCHANGED <<remoteVars, taskQueue, walkVars, projVars, itemVars, callVars,
                   histVars, entryVars, shutVars, calls>>

\* ------------------------------------------------------------------- Init
\* the remote trees: every group but the root has a parent with a smaller ID
Trees(n) == {p \in [2..n -> 1..n] : \A c \in 2..n : p[c] < c}

\* a remote without tokens, triggers and variables
NoItems ==
    /\ itemLen = <<>>
    /\ itemFail = <<>>
    /\ inactive = {}
    /\ remoteFilters = TRUE
    /\ includeInactive = FALSE

\* a call with a well-formed, non-empty group ID; the flat listing is not used
ValidEntry ==
    /\ idKind = "valid"
    /\ flatFail = 0
    /\ dangling = "none"

\* the pool is used through the Client only: no job of its own, no Shutdown
NoJobs ==
    /\ runs = <<>>
    /\ sub = <<>>

\* the operation is called on the Client directly, not by a command
NoCommand ==
    /\ cmd = "none"
    /\ projectArg = FALSE

\* one goroutine calls the Client: no concurrent calls
NoCalls == calls = <<>>

\* the state after NewClient: idle workers, an empty queue
Constructed ==
    /\ taskQueue = <<>>
    /\ wk = [w \in Workers |-> IdleWorker]
    /\ groups = <<>>
    /\ wg = 0
    /\ projectMap = <<>>
    /\ wgP = 0
    /\ projects = <<>>
    /\ items = <<>>
    /\ wgI = 0
    /\ ci = 0
    /\ ret = NoReturn
    /\ listCount = [g \in 1..numGroups |-> 0]
    /\ submitCount = [g \in 1..numGroups |-> 0]
    /\ optPage = 0
    /\ allGroups = <<>>
    /\ allListed = <<>>
    /\ getCount = 0
    /\ flatCount = 0
    /\ closed = FALSE

\* the same with the calling goroutine at the entry of the operation
Fresh ==
    /\ Constructed
    /\ caller = "start"

\* GetGroupsRecursively(root) on every tree of up to MaxGroups groups
Init ==
    /\ op = "groups"
    /\ nWorkers \in 1..MaxWorkers
    /\ numGroups \in 1..MaxGroups
    /\ parent \in Trees(numGroups)
    /\ rootFail \in BOOLEAN
    /\ subFail \in [1..numGroups -> 0..MaxGroups]
    /\ Cardinality({g \in 1..numGroups : subFail[g] # 0}) <= MaxFailures
    /\ \A g \in 1..numGroups : subFail[g] <= NumPages(Len(Children(g)))
    /\ projSet = [g \in 1..numGroups |-> {}]
    /\ projFail = [g \in 1..numGroups |-> 0]
    /\ projOrder = "asc"
    /\ NoItems
    /\ ValidEntry
    /\ NoJobs
    /\ NoCommand
    /\ NoCalls
    /\ Fresh

Next ==
    \/ CallGetGroup
    \/ CallAdd
    \/ CallSubmit
    \/ CallWait
    \/ \E w \in Workers : WorkerTake(w)
    \/ \E w \in Workers : FetchPage(w)
    \/ \E w \in Workers : AppendPage(w)
    \/ \E w \in Workers : AddChild(w)
    \/ \E w \in Workers : SubmitChild(w)
    \/ \E w \in Workers : TaskDone(w)

Spec == Init /\ [][Next]_vars

\* ---- GetProjectsRecursively on overlapping project listings
\* at most MaxFailures of the listings 1..n, of lens[x] items each, fail, each
\* on a page the listing has
FailMaps(n, lens) ==
    {f \in [1..n -> 0..NumPages(MaxProjects + MaxItems)] :
        /\ Cardinality({x \in 1..n : f[x] # 0}) <= MaxFailures
        /\ \A x \in 1..n : f[x] <= NumPages(lens[x])}

InitProjects ==
    /\ op = "projects"
    /\ nWorkers \in 1..MaxWorkers
    /\ numGroups \in 1..BulkGroups
    /\ parent \in Trees(numGroups)
    /\ rootFail = FALSE
    /\ subFail = [g \in 1..numGroups |-> 0]
    /\ projSet \in [1..numGroups -> SUBSET (1..MaxProjects)]
    /\ projFail \in FailMaps(numGroups, [g \in 1..numGroups |-> Cardinality(projSet[g])])
    /\ projOrder \in ProjOrders
    /\ NoItems
    /\ ValidEntry
    /\ NoJobs
    /\ NoCommand
    /\ NoCalls
    /\ Fresh

NextProjects ==
    \/ Next
    \/ ProjAdd
    \/ ProjSubmit
    \/ ProjWait
    \/ \E w \in Workers : FetchProjects(w)
    \/ \E w \in Workers : MergeProjects(w)

SpecProjects == InitProjects /\ [][NextProjects]_vars

\* ---- every aggregator and every single-target operation
TokenOps == {"gtokens", "gtokens1", "ptokens", "ptokens1"}

\* the nodes that carry the items of an operation: project or group IDs
ItemNodes(o, n) ==
    IF o \in SingleOps THEN 1..TargetID
    ELSE IF IsGroupKind(Kind(o)) THEN 1..n ELSE 1..BulkProjects

\* how the projects are spread over the groups: one project per group, every
\* project in every group, every project in the root only, no project
ProjLayouts(n) ==
    {[g \in 1..n |-> {g} \cap (1..BulkProjects)],
     [g \in 1..n |-> 1..BulkProjects],
     [g \in 1..n |-> IF g = RootID THEN 1..BulkProjects ELSE {}],
     [g \in 1..n |-> {}]}

\* which tokens of a node are inactive: none, the even ranks, the odd ranks
InactivePatterns ==
    {{}, {i \in 1..MaxItems : i % 2 = 0}, {i \in 1..MaxItems : i % 2 = 1}}

InitItems ==
    /\ op \in RecursiveItemOps \cup SingleOps
    /\ nWorkers = MaxWorkers
    /\ numGroups \in 1..BulkGroups
    /\ parent \in Trees(numGroups)
    /\ rootFail \in BOOLEAN
    /\ subFail = [g \in 1..numGroups |-> 0]
    /\ projSet \in (IF op \in {"ptokens", "triggers", "pvars"}
                    THEN ProjLayouts(numGroups)
                    ELSE {[g \in 1..numGroups |-> {}]})
    /\ projFail = [g \in 1..numGroups |-> 0]
    /\ projOrder = "asc"
    /\ itemLen \in [ItemNodes(op, numGroups) -> 0..MaxItems]
    /\ itemFail \in FailMaps(Cardinality(ItemNodes(op, numGroups)), itemLen)
    /\ inactive \in (IF op \in TokenOps THEN InactivePatterns ELSE {{}})
    /\ remoteFilters \in (IF op \in TokenOps THEN BOOLEAN ELSE {TRUE})
    /\ includeInactive \in (IF op \in TokenOps THEN BOOLEAN ELSE {FALSE})
    /\ ValidEntry
    /\ NoJobs
    /\ NoCommand
    /\ NoCalls
    /\ Fresh

InitBulk == InitProjects \/ InitItems

NextBulk ==
    \/ NextProjects
    \/ CallGetTarget
    \/ CallListSingle
    \/ ItemAdd
    \/ ItemSubmit
    \/ ItemWait
    \/ \E w \in Workers : FetchItems(w)
    \/ \E w \in Workers : AppendItems(w)

SpecBulk == InitBulk /\ [][NextBulk]_vars

\* ---- how every operation starts: identifier valid, empty or invalid
\* the chain 1 <- 2 <- ... <- n
Chain(n) == [c \in 2..n |-> c - 1]

InitEntry ==
    /\ op \in {"groups", "projects"} \cup RecursiveItemOps \cup SingleOps
    /\ nWorkers = MaxWorkers
    /\ idKind \in (IF op \in SingleOps THEN {"valid", "invalid"}
                   ELSE {"valid", "empty", "invalid"})
    \* the caller of the empty group ID may have access to no group at all
    /\ numGroups \in (IF idKind = "empty" THEN 0..EntryGroups ELSE 1..EntryGroups)
    /\ parent \in (IF idKind = "valid" /\ op \notin SingleOps
                   THEN Trees(numGroups) ELSE {Chain(numGroups)})
    \* the remote knows no group or project with a malformed identifier
    /\ rootFail \in (IF idKind = "invalid" THEN {TRUE} ELSE BOOLEAN)
    /\ flatFail \in (IF idKind = "empty" THEN 0..NumPages(numGroups) ELSE {0})
    /\ dangling \in (IF idKind = "empty" THEN {"none", "stop", "err", "again"}
                     ELSE {"none"})
    /\ subFail = [g \in 1..numGroups |-> 0]
    /\ projSet = [g \in 1..numGroups |-> {g} \cap (1..BulkProjects)]
    /\ projFail = [g \in 1..numGroups |-> 0]
    /\ projOrder = "asc"
    /\ itemLen \in (IF op \in SingleOps THEN [1..TargetID -> 0..MaxItems]
                    ELSE {[x \in ItemNodes(op, numGroups) |-> 1]})
    /\ itemFail = [x \in DOMAIN itemLen |-> 0]
    /\ inactive = {}
    /\ remoteFilters = TRUE
    /\ includeInactive = FALSE
    /\ NoJobs
    /\ NoCommand
    /\ NoCalls
    /\ Fresh

NextEntry ==
    \/ NextBulk
    \/ CallGetAllGroups
    \/ FlatPage

SpecEntry == InitEntry /\ [][NextEntry]_vars

\* the same with every enabled step eventually taken
SpecEntryLive == SpecEntry /\ WF_vars(NextEntry)

\* the group walk with every enabled step eventually taken
SpecLive == Spec /\ WF_vars(Next)

\* ---- a pool used directly: NumSubmitters goroutines submit up to JobsEach
\* jobs each and wait for them; the pool is shut down after the last Submit
Submitter(n) == [pc |-> "add", total |-> n, left |-> n, pending |-> 0]

InitPool ==
    /\ op = "pool"
    /\ nWorkers \in 1..MaxWorkers
    /\ numGroups = 1
    /\ parent = Chain(1)
    /\ rootFail = FALSE
    /\ subFail = [g \in 1..numGroups |-> 0]
    /\ projSet = [g \in 1..numGroups |-> {}]
    /\ projFail = [g \in 1..numGroups |-> 0]
    /\ projOrder = "asc"
    /\ NoItems
    /\ ValidEntry
    /\ runs = [j \in JobIDs |-> 0]
    /\ sub \in [1..NumSubmitters -> {Submitter(n) : n \in 1..JobsEach}]
    /\ NoCommand
    /\ NoCalls
    /\ Fresh

NextPool ==
    \/ \E s \in DOMAIN sub : JobAdd(s)
    \/ \E s \in DOMAIN sub : JobSubmit(s)
    \/ \E s \in DOMAIN sub : JobWait(s)
    \/ Shutdown
    \/ \E w \in Workers : WorkerTake(w)
    \/ \E w \in Workers : RunJob(w)
    \/ \E w \in Workers : JobDone(w)
    \/ \E w \in Workers : WorkerExit(w)

SpecPool == InitPool /\ [][NextPool]_vars

\* the same with every enabled step eventually taken
SpecPoolLive == SpecPool /\ WF_vars(NextPool)

\* ---- the bulk aggregators on more nodes than the pool has workers and
\* queue slots: up to EntryGroups groups in a chain (walked, or listed flat
\* for the empty group ID), one project in each group
InitFanOut ==
    /\ op \in RecursiveItemOps
    /\ nWorkers \in 1..MaxWorkers
    /\ numGroups \in 1..EntryGroups
    /\ idKind \in {"valid", "empty"}
    /\ parent = Chain(numGroups)
    /\ rootFail = FALSE
    /\ flatFail = 0
    /\ dangling = "none"
    /\ subFail = [g \in 1..numGroups |-> 0]
    /\ projSet = [g \in 1..numGroups |-> {g}]
    /\ projFail = [g \in 1..numGroups |-> 0]
    /\ projOrder = "asc"
    /\ itemLen = [x \in 1..numGroups |-> 1]
    /\ itemFail \in FailMaps(numGroups, itemLen)
    /\ inactive = {}
    /\ remoteFilters = TRUE
    /\ includeInactive = FALSE
    /\ NoJobs
    /\ NoCommand
    /\ NoCalls
    /\ Fresh

NextFanOut ==
    \/ NextProjects
    \/ CallGetAllGroups
    \/ FlatPage
    \/ ItemAdd
    \/ ItemSubmit
    \/ ItemWait
    \/ \E w \in Workers : FetchItems(w)
    \/ \E w \in Workers : AppendItems(w)

SpecFanOut == InitFanOut /\ [][NextFanOut]_vars

\* the same with every enabled step eventually taken
SpecFanOutLive == SpecFanOut /\ WF_vars(NextFanOut)

\* ---- two goroutines call a group-level aggregator on the same Client at
\* the same time, both for every accessible group (the empty group ID)
\* the locals of a call: opt.Page and allGroups of its GetAllGroups (nodes,
\* then its groups), allVariables (allTokens), wg, and its position
NewCall(o) ==
    [op |-> o, pc |-> "start", page |-> 0, nodes |-> <<>>, ci |-> 0, agg |-> <<>>,
     wg |-> 0, ret |-> NoReturn]

\* the closure a call hands to Submit: it holds the node and the pointers to
\* the aggregate, mutex and WaitGroup of its own call
CallTask(c, x) == [kind |-> "call", id |-> [call |-> c, node |-> x]]

\* groups, err := c.GetGroupsRecursively(""): GetAllGroups is entered,
\* opt.Page = 1; var allGroups
TwoStart(c) ==
    /\ calls[c].pc = "start"
    /\ calls' = [calls EXCEPT ![c] = [@ EXCEPT !.pc = "flat", !.page = 1]]
    /\ UNCHANGED <<remoteVars, poolVars, walkVars, projVars, itemVars, callVars,
                   histVars, entryVars, shutVars>>

\* one turn of the loop of GetAllGroups in call c: request opt.Page; on err
\* the call returns nil and the wrapped error; else the page is appended and
\* the loop goes on with resp.NextPage or, when that is 0, the call goes on to
\* its fan-out loop over the groups
TwoFlat(c) ==
    /\ calls[c].pc = "flat"
    /\ flatCount' = Min(flatCount + 1, MaxRequests)
    /\ LET r == ListGroups(calls[c].page)
           acc == FlatAppend(calls[c].nodes, r.items)
       IN calls' = [calls EXCEPT ![c] =
                       IF r.err
                       THEN [@ EXCEPT !.pc = "returned",
                                      !.ret = [done |-> TRUE, isNil |-> TRUE,
                                               items |-> <<>>,
                                               err |-> FlatErr(calls[c].op)]]
                       ELSE IF r.next # 0
                       THEN [@ EXCEPT !.page = r.next, !.nodes = acc]
                       ELSE IF acc = <<>>
                       THEN [@ EXCEPT !.pc = "wait", !.nodes = acc]
                       ELSE [@ EXCEPT !.pc = "add", !.nodes = acc, !.ci = 1]]
    /\ UNCHANGED <<remoteVars, poolVars, walkVars, projVars, itemVars, callVars,
                   histVars, optPage, allGroups, allListed, getCount, shutVars>>

\* for _, group := range groups { wg.Add(1) ...
TwoAdd(c) ==
    /\ calls[c].pc = "add"
    /\ calls' = [calls EXCEPT ![c] = [@ EXCEPT !.pc = "submit", !.wg = @ + 1]]
    /\ UNCHANGED <<remoteVars, poolVars, walkVars, projVars, itemVars, callVars,
                   histVars, entryVars, shutVars>>

\* ... c.pool.Submit(func() { defer wg.Done(); c.fetch...(id, group, &all, &mu) }) }
TwoSubmit(c) ==
    /\ calls[c].pc = "submit"
    /\ CanSubmit
    /\ taskQueue' = Enqueue(taskQueue, CallTask(c, calls[c].nodes[calls[c].ci]))
    /\ calls' = [calls EXCEPT ![c] =
                    IF calls[c].ci < Len(calls[c].nodes)
                    THEN [@ EXCEPT !.pc = "add", !.ci = @ + 1]
                    ELSE [@ EXCEPT !.pc = "wait", !.ci = 0]]
    /\ UNCHANGED <<remoteVars, wk, walkVars, projVars, itemVars, callVars,
                   histVars, entryVars, shutVars>>

\* wg.Wait(); return allVariables, nil
TwoWait(c) ==
    /\ calls[c].pc = "wait"
    /\ calls[c].wg = 0
    /\ calls' = [calls EXCEPT ![c] =
                    [@ EXCEPT !.pc = "returned",
                              !.ret = [done |-> TRUE, isNil |-> calls[c].agg = <<>>,
                                       items |-> calls[c].agg, err |-> ""]]]
    /\ UNCHANGED <<remoteVars, poolVars, walkVars, projVars, itemVars, callVars,
                   histVars, entryVars, shutVars>>

\* the items a task of call c produced: by records the call of the task
TagAll(c, ts) ==
    [i \in 1..Len(ts) |-> [by |-> c, owner |-> ts[i].owner, rank |-> ts[i].rank]]

\* fetchVariablesForGroup / fetchTokensForGroup: xs, err := c.list...(), one
\* page request of the helper's loop per step; on err the task returns
TwoFetch(w) ==
    /\ wk[w].kind = "call"
    /\ wk[w].pc = "ilist"
    /\ LET r == ListFor(Kind(calls[wk[w].id.call].op), wk[w].id.node, includeInactive,
                        wk[w].page, wk[w].subs)
       IN wk' = [wk EXCEPT ![w] =
                    IF r.err THEN [@ EXCEPT !.pc = "ret", !.subs = r.items]
                    ELSE IF r.next = 0 THEN [@ EXCEPT !.pc = "iappend", !.subs = r.items]
                    ELSE [@ EXCEPT !.page = r.next, !.subs = r.items]]
    /\ UNCHANGED <<remoteVars, taskQueue, walkVars, projVars, itemVars, callVars,
                   histVars, entryVars, shutVars, calls>>

\* mutant: the tasks of every call append to the aggregate of the first call
TwoAppend_Shared(w) ==
    /\ wk[w].kind = "call"
    /\ wk[w].pc = "iappend"
    /\ calls' = [calls EXCEPT ![1] =
                    [@ EXCEPT !.agg = @ \o TagAll(wk[w].id.call, wk[w].subs)]]
    /\ wk' = [wk EXCEPT ![w] = [@ EXCEPT !.pc = "ret", !.subs = <<>>]]
    /\ UNCHANGED <<remoteVars, taskQueue, walkVars, projVars, itemVars, callVars,
                   histVars, entryVars, shutVars>>

\* mu.Lock(); *variables = append(*variables, groupVariables...); mu.Unlock()
\* on the slice and mutex the closure was given
TwoAppend(w) ==
    /\ wk[w].kind = "call"
    /\ wk[w].pc = "iappend"
    /\ calls' = [calls EXCEPT ![wk[w].id.call] =
                    [@ EXCEPT !.agg = @ \o TagAll(wk[w].id.call, wk[w].subs)]]
    /\ wk' = [wk EXCEPT ![w] = [@ EXCEPT !.pc = "ret", !.subs = <<>>]]
    /\ UNCHANGED <<remoteVars, taskQueue, walkVars, projVars, itemVars, callVars,
                   histVars, entryVars, shutVars>>

\* the deferred wg.Done() on the WaitGroup of the task's call
TwoDone(w) ==
    /\ wk[w].kind = "call"
    /\ wk[w].pc = "ret"
    /\ calls' = [calls EXCEPT ![wk[w].id.call] = [@ EXCEPT !.wg = @ - 1]]
    /\ wk' = [wk EXCEPT ![w] = IdleWorker]
    /\ UNCHANGED <<remoteVars, taskQueue, walkVars, projVars, itemVars, callVars,
                   histVars, entryVars, shutVars>>

InitTwo ==
    /\ op = "two"
    /\ nWorkers \in 1..MaxWorkers
    /\ numGroups \in 0..TwoGroups
    /\ idKind = "empty"
    /\ parent = Chain(numGroups)
    /\ rootFail = FALSE
    /\ flatFail \in 0..NumPages(numGroups)
    /\ dangling = "none"
    /\ subFail = [g \in 1..numGroups |-> 0]
    /\ projSet = [g \in 1..numGroups |-> {}]
    /\ projFail = [g \in 1..numGroups |-> 0]
    /\ projOrder = "asc"
    /\ itemLen \in {[x \in 1..numGroups |-> IF x = RootID THEN n ELSE 1] :
                      n \in 1..MaxItems}
    /\ itemFail \in FailMaps(numGroups, itemLen)
    /\ inactive = {}
    /\ remoteFilters = TRUE
    /\ includeInactive = FALSE
    /\ NoJobs
    /\ NoCommand
    /\ calls \in [1..NumCalls -> {NewCall(o) : o \in {"gvars", "gtokens"}}]
    /\ Constructed
    /\ caller = "none"

NextTwo ==
    \/ \E c \in DOMAIN calls : TwoStart(c)
    \/ \E c \in DOMAIN calls : TwoFlat(c)
    \/ \E c \in DOMAIN calls : TwoAdd(c)
    \/ \E c \in DOMAIN calls : TwoSubmit(c)
    \/ \E c \in DOMAIN calls : TwoWait(c)
    \/ \E w \in Workers : WorkerTake(w)
    \/ \E w \in Workers : TwoFetch(w)
    \/ \E w \in Workers : TwoAppend(w)
    \/ \E w \in Workers : TwoDone(w)

SpecTwo == InitTwo /\ [][NextTwo]_vars

\* ---- the same pool with Shutdown called at any moment
NextShut ==
    \/ \E s \in DOMAIN sub : JobAdd(s)
    \/ \E s \in DOMAIN sub : JobSubmit(s)
    \/ \E s \in DOMAIN sub : JobWait(s)
    \/ ShutdownAnyTime
    \/ \E w \in Workers : WorkerTake(w)
    \/ \E w \in Workers : RunJob(w)
    \/ \E w \in Workers : JobDone(w)
    \/ \E w \in Workers : WorkerExit(w)

SpecShut == InitPool /\ [][NextShut]_vars

\* ------------------------------------------------------------ the commands
\* tokens ptt, tokens pat and variables group
Commands == {"ptt", "pat", "vargroup"}

\* fetchTriggers: the client operation it calls, "none" when it returns
\* ErrBothGroupIDAndProjectIDProvided
fetchTriggers(hasGroup, hasProject) ==
    IF hasGroup /\ hasProject THEN "none"
    ELSE IF ~hasGroup /\ ~hasProject THEN "triggers"
    ELSE IF hasGroup THEN "triggers"
    ELSE "triggers1"

\* mutant: the check for both identifiers is missing
fetchTokens_NoBothCheck(hasGroup, hasProject) ==
    IF ~hasGroup /\ ~hasProject THEN "ptokens"
    ELSE IF hasGroup THEN "ptokens"
    ELSE "ptokens1"

\* fetchTokens: likewise
fetchTokens(hasGroup, hasProject) ==
    IF hasGroup /\ hasProject THEN "none"
    ELSE IF ~hasGroup /\ ~hasProject THEN "ptokens"
    ELSE IF hasGroup THEN "ptokens"
    ELSE "ptokens1"

\* runVariablesGroup: GetGroupVariables(groupID) for a group ID,
\* GetGroupVariablesRecursively("") without one
runVariablesGroup(hasGroup) ==
    IF hasGroup THEN "gvars1" ELSE "gvars"

\* the client operation command c calls
DispatchOp(c, hasGroup, hasProject) ==
    CASE c = "ptt" -> fetchTriggers(hasGroup, hasProject)
      [] c = "pat" -> fetchTokens(hasGroup, hasProject)
      [] OTHER -> runVariablesGroup(hasGroup)

\* the message a command wraps around the error of its client operation
CmdErr(c, hasGroup, hasProject) ==
    CASE c = "ptt" /\ ~hasGroup /\ ~hasProject ->
             "failed to fetch pipeline triggers from all groups"
      [] c = "ptt" -> "failed to fetch pipeline triggers"
      [] c = "pat" /\ ~hasGroup /\ ~hasProject ->
             "failed to fetch project access tokens from all groups"
      [] c = "pat" /\ hasGroup -> "failed to fetch project access tokens recursively"
      [] c = "pat" -> "failed to fetch project access tokens"
      [] OTHER -> "failed to fetch variables"

\* the message runPTT wraps around the error of fetchTriggers; runPAT
\* returns the error of fetchTokens as it is
RunErr(c, e) ==
    IF c = "ptt" THEN "failed to fetch pipeline triggers in runPTT" ELSE e

\* the commands below tokensCmd, which share its persistent flags
TokenCommands == {"ptt", "pat"}

\* pttCmd.MarkFlagsMutuallyExclusive("group-id", "project-id") marks the
\* persistent flags of tokensCmd, which its subcommands share: the command
\* line of a tokens command is rejected before the run function when both
\* flags are set
MutuallyExclusive(c, hasGroup, hasProject) ==
    c \in TokenCommands /\ hasGroup /\ hasProject

\* the flag group is violated: the command ends with the error of the flag
\* validation, runPTT (runPAT) is not entered
CmdReject ==
    /\ caller = "cmd"
    /\ MutuallyExclusive(cmd, idKind # "empty", projectArg)
    /\ caller' = "exit"
    /\ ret' = [done |-> TRUE, isNil |-> TRUE, items |-> <<>>,
               err |-> "flags group-id and project-id are mutually exclusive"]
    /\ UNCHANGED <<remoteVars, poolVars, walkVars, projVars, itemVars, ci, histVars,
                   entryVars, shutVars, calls>>

\* fetchTriggers, fetchTokens, runVariablesGroup: the identifiers are looked
\* at and either ErrBothGroupIDAndProjectIDProvided is returned to the run
\* function or one operation of the Client is called
CmdDispatch ==
    /\ caller = "cmd"
    /\ ~MutuallyExclusive(cmd, idKind # "empty", projectArg)
    /\ LET o == DispatchOp(cmd, idKind # "empty", projectArg)
       IN IF o = "none"
          THEN /\ caller' = "fetched"
               /\ ret' = [done |-> TRUE, isNil |-> TRUE, items |-> <<>>,
                          err |-> "ErrBothGroupIDAndProjectIDProvided"]
               /\ UNCHANGED op
          ELSE /\ caller' = "start"
               /\ op' = o
               /\ UNCHANGED ret
    /\ UNCHANGED <<cmd, projectArg, nWorkers, numGroups, parent, rootFail, subFail,
                   projSet, projOrder, projFail, itemLen, itemFail, inactive,
                   remoteFilters,
                   includeInactive, idKind, flatFail, dangling>>
    /\ UNCHANGED <<poolVars, walkVars, projVars, itemVars, ci, histVars, entryVars,
                   shutVars, calls>>

\* the client operation returned: fetchTriggers and fetchTokens return the
\* result, or nil and the wrapped error, to the run function;
\* runVariablesGroup, which calls the Client itself, returns
CmdReturn ==
    /\ caller = "returned"
    /\ cmd \in Commands
    /\ caller' = IF cmd = "vargroup" THEN "exit" ELSE "fetched"
    /\ ret' = IF ret.err = "" THEN ret
              ELSE [ret EXCEPT !.isNil = TRUE, !.items = <<>>,
                               !.err = CmdErr(cmd, idKind # "empty", projectArg)]
    /\ UNCHANGED <<remoteVars, poolVars, walkVars, projVars, itemVars, ci, histVars,
                   entryVars, shutVars, calls>>

\* runPTT, runPAT after the fetch function returned: if err != nil the error
\* is returned, wrapped by runPTT; else the result goes to the formatter
CmdExit ==
    /\ caller = "fetched"
    /\ caller' = "exit"
    /\ ret' = IF ret.err = "" THEN ret ELSE [ret EXCEPT !.err = RunErr(cmd, ret.err)]
    /\ UNCHANGED <<remoteVars, poolVars, walkVars, projVars, itemVars, ci, histVars,
                   entryVars, shutVars, calls>>

\* the nodes that carry the items of a command: groups or projects
CmdNodes(c, n) == IF c = "vargroup" THEN 1..n ELSE 1..BulkProjects

\* a command run with or without --group-id and --project-id
InitCmd ==
    /\ cmd \in Commands
    /\ op = "none"
    /\ projectArg \in (IF cmd = "vargroup" THEN {FALSE} ELSE BOOLEAN)
    /\ idKind \in {"valid", "empty"}
    /\ nWorkers = MaxWorkers
    /\ numGroups \in 1..BulkGroups
    /\ parent \in (IF idKind = "valid" THEN Trees(numGroups) ELSE {Chain(numGroups)})
    /\ rootFail \in BOOLEAN
    /\ flatFail \in (IF idKind = "empty" THEN 0..NumPages(numGroups) ELSE {0})
    /\ dangling = "none"
    /\ subFail = [g \in 1..numGroups |-> 0]
    /\ projSet = [g \in 1..numGroups |-> {g} \cap (1..BulkProjects)]
    /\ projFail = [g \in 1..numGroups |-> 0]
    /\ projOrder = "asc"
    /\ itemLen \in [CmdNodes(cmd, numGroups) -> 1..MaxItems]
    /\ itemFail \in FailMaps(Cardinality(CmdNodes(cmd, numGroups)), itemLen)
    /\ inactive = {}
    /\ remoteFilters = TRUE
    /\ includeInactive = FALSE
    /\ NoJobs
    /\ NoCalls
    /\ Constructed
    /\ caller = "cmd"

NextCmd ==
    \/ NextEntry
    \/ CmdReject
    \/ CmdDispatch
    \/ CmdReturn
    \/ CmdExit

SpecCmd == InitCmd /\ [][NextCmd]_vars

\* ------------------------------------------------------------ vocabulary
Range(s) == {s[i] : i \in DOMAIN s}
NoDup(s) == Cardinality(Range(s)) = Len(s)

RECURSIVE Ancestors(_)
\* the proper ancestors of group c
Ancestors(c) == IF c = RootID THEN {} ELSE {parent[c]} \cup Ancestors(parent[c])

\* the proper descendants of group g
Descendants(g) == {c \in GroupIDs : g \in Ancestors(c)}

\* no remote call of the walk fails
NoWalkFailure == ~rootFail /\ \A g \in GroupIDs : subFail[g] = 0

\* the subgroup listing of g, and of no other group, fails; the root lookup works
OnlyFailure(g) ==
    /\ ~rootFail
    /\ subFail[g] # 0
    /\ \A h \in GroupIDs \ {g} : subFail[h] = 0

\* tasks registered with the join counter and not finished: queued, running,
\* or registered by Add and about to be handed to Submit
Outstanding ==
    Len(taskQueue)
    + Cardinality({w \in Workers : wk[w].pc # "idle"})
    + Cardinality({w \in Workers : wk[w].pc = "submit"})
    + (IF caller = "submit" THEN 1 ELSE 0)

AllIdle == \A w \in Workers : wk[w].pc = "idle"

\* ------------------------------------------------------------------ claims

\* C1: when the root lookup and every subgroup listing succeed, the sequence
\* GetGroupsRecursively returns holds the root and every subgroup at every
\* depth, each exactly once, whatever the interleaving of the workers.
C1_WalkComplete ==
    (op = "groups" /\ ret.done /\ NoWalkFailure) =>
        /\ ~ret.isNil
        /\ ret.err = ""
        /\ Range(ret.items) = GroupIDs
        /\ Len(ret.items) = numGroups

\* root 1 with subgroups 2 and 3, subgroup 2 with subgroup 4, walked by two workers
C1_Witness ==
    /\ ret.done /\ NoWalkFailure
    /\ nWorkers = 2 /\ numGroups = 4
    /\ parent[2] = 1 /\ parent[3] = 1 /\ parent[4] = 2
    /\ Len(ret.items) = 4

\* C2: no reachable state has every worker blocked inside Submit on a full
\* queue while the caller waits for the join counter (from such a state the
\* call never returns).
C2_NoSubmitDeadlock ==
    ~(/\ caller = "wait"
      /\ wg > 0
      /\ ~CanSubmit
      /\ \A w \in Workers : wk[w].pc = "submit")

\* C3: the join counter is at least 1 whenever a task of the walk is queued,
\* running or registered; the call returns only when no task is queued or
\* running; and the returned sequence is the shared slice, which no longer
\* changes.
C3_JoinCoversTasks ==
    /\ Outstanding > 0 => wg >= 1
    /\ ret.done => (taskQueue = <<>> /\ AllIdle /\ Outstanding = 0)
    /\ (ret.done /\ ~ret.isNil) => ret.items = groups

\* the walk of a tree of three or more groups has returned
C3_Witness ==
    /\ ret.done /\ ~ret.isNil
    /\ Len(groups) >= 3
    /\ \E g \in GroupIDs \ {RootID} : submitCount[g] = 1 /\ listCount[g] >= 1

\* C4 (as claimed): when exactly one non-root group's subgroup listing fails,
\* the call succeeds and the result holds every group except exactly the
\* descendants of the failing group.
C4_OmitsAllDescendants ==
    \A g \in GroupIDs \ {RootID} :
        (op = "groups" /\ ret.done /\ OnlyFailure(g)) =>
            /\ ~ret.isNil /\ ret.err = ""
            /\ NoDup(ret.items)
            /\ Range(ret.items) = GroupIDs \ Descendants(g)

\* the subgroups of g that the failing page and the pages after it would serve
LostChildren(g) ==
    {Children(g)[i] : i \in ((subFail[g] - 1) * PageSize + 1)..Len(Children(g))}

\* C4 (amended): when exactly one non-root group's subgroup listing fails, on
\* page k, the call succeeds and the result holds every group except exactly
\* the subgroups that page k and the later pages of that listing would have
\* served, and their descendants (all descendants when k = 1).
C4_OmitsFromFailingPage ==
    \A g \in GroupIDs \ {RootID} :
        (op = "groups" /\ ret.done /\ OnlyFailure(g)) =>
            /\ ~ret.isNil /\ ret.err = ""
            /\ NoDup(ret.items)
            /\ Range(ret.items) =
                   GroupIDs \ UNION {{c} \cup Descendants(c) : c \in LostChildren(g)}

\* group 2 has subgroups 3, 4, 5 and a subgroup of its own below 3 is lost or
\* kept: its listing fails, and the call has returned without the lost groups
C4_Witness ==
    /\ ret.done /\ ~ret.isNil
    /\ \E g \in GroupIDs \ {RootID} :
          /\ OnlyFailure(g)
          /\ Descendants(g) # {}
          /\ g \in Range(ret.items)
          /\ Range(ret.items) \cap Descendants(g) = {}
          /\ \E h \in GroupIDs \ ({g} \cup Descendants(g)) : h \in Range(ret.items) /\ h # RootID

\* C5: when the root lookup fails the call returns an error and a nil result,
\* and neither submits a task nor issues a subgroup listing.
C5_RootFailureIsFatal ==
    (op = "groups" /\ rootFail) =>
        /\ caller \in {"start", "returned"}
        /\ caller = "returned" =>
              (ret.done /\ ret.isNil /\ ret.items = <<>> /\ ret.err = "failed to get root group")
        /\ taskQueue = <<>> /\ AllIdle /\ wg = 0
        /\ \A g \in GroupIDs : submitCount[g] = 0 /\ listCount[g] = 0

\* the root lookup of a tree with subgroups, one of them unlistable, has failed
C5_Witness ==
    /\ rootFail /\ ret.done /\ ret.isNil
    /\ numGroups >= 3
    /\ \E g \in GroupIDs : subFail[g] # 0

\* ------------------------------------------ vocabulary of the aggregators
\* the project IDs of a returned project sequence
IDsOf(ps) == [i \in 1..Len(ps) |-> ps[i].id]

\* every project some group lists
AllProjects == UNION {projSet[g] : g \in GroupIDs}

\* a project that two groups list
SharedProject(p) == \E g, h \in GroupIDs : g # h /\ p \in projSet[g] \cap projSet[h]

\* the ranks of the items of node x that the remote serves to the operation
ServedRanks(x) ==
    {i \in 1..itemLen[x] :
        ~(op \in TokenOps /\ ~includeInactive /\ remoteFilters /\ i \in inactive)}

\* the listing of node x runs into its failing page
ListingFails(x) ==
    itemFail[x] # 0 /\ itemFail[x] <= NumPages(Cardinality(ServedRanks(x)))

\* the ranks of the items node x is to contribute when its listing works
ExpectedRanks(x) ==
    {i \in ServedRanks(x) :
        ~(op \in {"ptokens", "ptokens1"} /\ ~includeInactive /\ i \in inactive)}

\* the nodes a token, trigger or variable operation lists
ListedNodes ==
    IF op \in SingleOps THEN {TargetID}
    ELSE IF IsGroupKind(Kind(op)) THEN GroupIDs ELSE AllProjects

\* the ranks of the returned items of node x, in the order of the result
RanksOf(x) ==
    LET own == SelectSeq(ret.items, LAMBDA t : t.owner = x)
    IN [i \in 1..Len(own) |-> own[i].rank]

\* C6: the sequence GetProjectsRecursively returns holds no project ID twice
\* and is strictly ascending by project ID, whatever the interleaving of the
\* per-group tasks and however many groups list the same project.
C6_UniqueAscending ==
    (op = "projects" /\ ret.done /\ ret.err = "") =>
        \A i, j \in 1..Len(ret.items) : i < j => ret.items[i].id < ret.items[j].id

\* C6 case: two groups list the same project and the call returned three projects
C6_Witness ==
    /\ op = "projects" /\ ret.done /\ ret.err = ""
    /\ \E p \in AllProjects : SharedProject(p)
    /\ Len(ret.items) = MaxProjects

\* C7: with fixed remote data and no failing call, the sequence of project
\* IDs GetProjectsRecursively returns is the ascending sequence of all listed
\* project IDs, the same for every order in which the tasks take the lock.
C7_SameIDsEveryRun ==
    (op = "projects" /\ ret.done /\ ~rootFail
        /\ \A g \in GroupIDs : subFail[g] = 0 /\ projFail[g] = 0) =>
        /\ ret.err = ""
        /\ IDsOf(ret.items) = SeqOfSet(AllProjects)

\* C7 case: the second group's task took the lock first, so a shared project
\* is the copy listed for group 2, and two workers ran the tasks
C7_Witness ==
    /\ op = "projects" /\ ret.done /\ nWorkers = 2
    /\ \A g \in GroupIDs : projFail[g] = 0
    /\ \E i \in 1..Len(ret.items) :
          /\ SharedProject(ret.items[i].id)
          /\ ret.items[i].via = 2
    /\ Len(ret.items) >= 2

\* C8: in every bulk aggregator a node whose listing fails on some page
\* contributes no item, not even from the pages fetched before the failure,
\* every other node's items are in the result, and the error is nil.
C8_FailedNodeContributesNothing ==
    (ret.done /\ ~rootFail /\ (op = "projects" \/ op \in RecursiveItemOps)) =>
        /\ ret.err = ""
        /\ op = "projects" =>
              \A g \in GroupIDs :
                 IF projFail[g] # 0
                 THEN \A i \in 1..Len(ret.items) : ret.items[i].via # g
                 ELSE \A p \in projSet[g] : \E i \in 1..Len(ret.items) : ret.items[i].id = p
        /\ op \in RecursiveItemOps =>
              \A x \in ListedNodes :
                 IF ListingFails(x)
                 THEN RanksOf(x) = <<>>
                 ELSE RanksOf(x) = SeqOfSet(ExpectedRanks(x))

\* C8 case: the listing of one node failed on its second page, after a full
\* first page, and the call returned the items of another node
C8_Witness ==
    /\ ret.done /\ ret.err = "" /\ op \in RecursiveItemOps
    /\ \E x, y \in ListedNodes :
          /\ x # y
          /\ itemFail[x] = 2 /\ ListingFails(x)
          /\ ~ListingFails(y) /\ RanksOf(y) # <<>>

\* C9: GetProjectAccessTokens and GetProjectAccessTokensRecursively with
\* includeInactive = false return no inactive token, also when the remote
\* serves inactive tokens despite the state filter, and keep every active
\* token the remote serves.
C9_ProjectTokensActiveOnly ==
    (op \in {"ptokens", "ptokens1"} /\ ret.done /\ ret.err = "" /\ ~includeInactive) =>
        /\ \A i \in 1..Len(ret.items) : ret.items[i].active
        /\ \A x \in ListedNodes : ~ListingFails(x) =>
              \A r \in ServedRanks(x) \ inactive :
                 \E i \in 1..Len(ret.items) :
                    ret.items[i].owner = x /\ ret.items[i].rank = r

\* C9 case: a stale remote served an inactive token of a project next to an
\* active one, and the recursive call returned
C9_Witness ==
    /\ op = "ptokens" /\ ret.done /\ ret.err = ""
    /\ ~includeInactive /\ ~remoteFilters
    /\ \E x \in ListedNodes :
          /\ ~ListingFails(x)
          /\ ServedRanks(x) \cap inactive # {}
          /\ RanksOf(x) # <<>>

\* C10: GetGroupAccessTokens and GetGroupAccessTokensRecursively with
\* includeInactive = false return no inactive token, also when the remote
\* serves inactive tokens despite the state filter.
C10_GroupTokensActiveOnly ==
    (op \in {"gtokens", "gtokens1"} /\ ret.done /\ ~includeInactive) =>
        \A i \in 1..Len(ret.items) : ret.items[i].active

\* ------------------------------------------- vocabulary of the entry checks
\* the flat listing runs into a failing page
FlatFails == flatFail # 0 \/ dangling = "err"

\* the group walk at the start of an operation fails
WalkFails == IF idKind = "empty" THEN FlatFails ELSE rootFail

\* no task was ever handed to the pool: nothing queued, nothing running
PoolUntouched == taskQueue = <<>> /\ AllIdle

\* C11: a paginated listing starts at page 1 and follows the cursor until it
\* is 0; a source serving N items over consecutive pages without error yields
\* exactly those N items, each once, in page order then in-page order, after
\* one request per page.
C11_PagedListingComplete ==
    /\ (caller = "flat" /\ flatCount = 0) => optPage = 1
    /\ (op = "groups" /\ idKind = "empty" /\ ~FlatFails /\ dangling = "none"
          /\ ret.done) =>
          /\ ret.err = ""
          /\ ret.items = [i \in 1..numGroups |-> i]
          /\ flatCount = NumPages(numGroups)
    /\ (op \in SingleOps /\ ret.done /\ ret.err = "") =>
          [i \in 1..Len(ret.items) |-> ret.items[i].rank]
              = [i \in 1..itemLen[TargetID] |-> i]

\* C11 case: the flat listing of EntryGroups groups took two requests and
\* returned all of them
C11_Witness ==
    /\ op = "groups" /\ idKind = "empty" /\ dangling = "none"
    /\ ret.done /\ ret.err = ""
    /\ flatCount = 2
    /\ Len(ret.items) = EntryGroups

\* C12: a paginated listing whose source declares a next-page cursor that
\* points to no existing page terminates: the loop of GetAllGroups is left.
C12_DanglingCursorTerminates == (caller = "flat") ~> (caller # "flat")

\* C17: GetGroupsRecursively("") only lists the accessible groups page by
\* page: no lookup, no subgroup listing, no task submitted; it returns the
\* pages concatenated in order, or nil and an error when a page fails.
C17_EmptyIDFlatOnly ==
    (op = "groups" /\ idKind = "empty") =>
        /\ getCount = 0
        /\ \A g \in GroupIDs : listCount[g] = 0 /\ submitCount[g] = 0
        /\ PoolUntouched /\ wg = 0
        /\ ret.done =>
              IF FlatFails
              THEN ret.isNil /\ ret.items = <<>> /\ ret.err = "failed to list groups"
              ELSE ret.err = "" /\ ret.items = SeqOfSet(GroupIDs)

\* C17 case: the second page of the flat listing failed after the first was
\* fetched, and the call returned
C17_Witness ==
    /\ op = "groups" /\ idKind = "empty"
    /\ flatFail = 2 /\ flatCount = 2
    /\ ret.done /\ ret.isNil

\* C18: GetGroupsRecursively, GetGroupAccessTokens and
\* GetProjectAccessTokensRecursively given an invalid group identifier return
\* nil and an "invalid group ID" error without any remote call or task.
C18_InvalidIDRejected ==
    (idKind = "invalid" /\ op \in {"groups", "gtokens1", "ptokens"}) =>
        /\ getCount = 0 /\ flatCount = 0
        /\ PoolUntouched
        /\ ret.done => (ret.isNil /\ ret.err = "invalid group ID")

\* C19: the single-target operations are fail-fast: when the target lookup or
\* any page of the listing fails they return nil and an error, never a part
\* of the list; and they never hand a task to the pool.
C19_SingleTargetFailFast ==
    op \in SingleOps =>
        /\ PoolUntouched
        /\ wg = 0 /\ wgP = 0 /\ wgI = 0
        /\ (ret.done /\ (rootFail \/ ListingFails(TargetID))) =>
              (ret.isNil /\ ret.items = <<>> /\ ret.err # "")

\* C19 case: the second page of the target's listing failed after a full
\* first page, and the call returned
C19_Witness ==
    /\ op \in SingleOps /\ ~rootFail
    /\ itemFail[TargetID] = 2 /\ ListingFails(TargetID)
    /\ ret.done /\ ret.err = ListErr(op)

\* C20: when the group walk at the start of a bulk aggregator fails, the
\* aggregator returns nil and an error, submits no fan-out task and issues no
\* per-node listing call.
C20_WalkFailureIsFatal ==
    ((op = "projects" \/ op \in RecursiveItemOps) /\ WalkFails) =>
        /\ \A w \in Workers : wk[w].kind \notin {"projects", "items"}
        /\ \A i \in 1..Len(taskQueue) : taskQueue[i].kind \notin {"projects", "items"}
        /\ wgP = 0 /\ wgI = 0
        /\ projectMap = <<>> /\ items = <<>>
        /\ ret.done => (ret.isNil /\ ret.items = <<>> /\ ret.err # "")

\* C20 case: the root lookup of GetProjectVariablesRecursively failed and the
\* call returned
C20_Witness ==
    /\ op = "pvars" /\ idKind = "valid" /\ rootFail
    /\ getCount = 1
    /\ ret.done /\ ret.err = "failed to get projects recursively"

\* --------------------------------------------- vocabulary of the pool checks
\* the workers that are executing a task
Executing == {w \in DOMAIN wk : wk[w].pc \notin {"idle", "exited"}}

\* how often job j sits in the queue
QueuedCount(j) ==
    Cardinality({i \in 1..Len(taskQueue) :
                    taskQueue[i].kind = "job" /\ taskQueue[i].id = j})

\* job j was taken from the queue by a worker
Taken(j) ==
    \/ runs[j] >= 1
    \/ \E w \in DOMAIN wk : wk[w].kind = "job" /\ wk[w].id = j

\* Submit has returned for job j
Submitted(j) ==
    LET s == OwnerOf(j)
    IN j - JobID(s, 0) <= sub[s].total - sub[s].left

\* C13: at every moment at most n tasks are being executed by a pool built
\* with NewPool(n), for any number of submitted tasks and of goroutines
\* submitting concurrently.
C13_AtMostNExecuting == Cardinality(Executing) <= nWorkers

\* C13 case: both workers of a pool of two execute jobs of different
\* submitters while further jobs wait in the queue
C13_Witness ==
    /\ op = "pool" /\ nWorkers = 2
    /\ taskQueue # <<>>
    /\ \E v, w \in Workers :
          /\ wk[v].pc = "run" /\ wk[w].pc = "run"
          /\ OwnerOf(wk[v].id) # OwnerOf(wk[w].id)

\* C14: every task passed to Submit is executed, whatever the tasks do: the
\* task of a group that is in the queue is eventually started, i.e. the first
\* page of the group's subgroup listing is eventually requested.
C14_EnqueuedTaskRuns ==
    \A g \in 1..MaxGroups :
        (g \in GroupIDs /\ \E i \in 1..Len(taskQueue) : taskQueue[i].id = g)
            ~> (g \in GroupIDs /\ listCount[g] >= 1)

\* C15: the queue of a pool built with NewPool(n) never holds more than 2*n
\* tasks; a job for which Submit has returned is in the queue or was taken
\* from it by a worker, exactly once, and no other job is.
C15_QueueBounded ==
    /\ Len(taskQueue) <= taskQueueBufferMultiplier * nWorkers
    /\ op = "pool" =>
          \A j \in JobIDs :
             IF Submitted(j)
             THEN QueuedCount(j) + (IF Taken(j) THEN 1 ELSE 0) = 1
             ELSE QueuedCount(j) = 0 /\ ~Taken(j)

\* C15 case: the queue is full and a submitter is held in Submit
C15_Witness ==
    /\ op = "pool"
    /\ Len(taskQueue) = taskQueueBufferMultiplier * nWorkers
    /\ \E s \in DOMAIN sub : sub[s].pc = "submit"

\* C16: after Shutdown every job that was in the queue is still executed,
\* and every worker eventually leaves its loop.
C16_ShutdownDrains ==
    /\ \A j \in JobIDs : (closed /\ QueuedCount(j) = 1) ~> (runs[j] = 1)
    /\ closed ~> (\A w \in DOMAIN wk : wk[w].pc = "exited")

\* C16 case: the queue was closed while two jobs were waiting in it and a
\* worker is about to take the next one
C16_Witness ==
    /\ closed
    /\ Len(taskQueue) >= 2
    /\ \E w \in Workers : wk[w].pc = "idle"

\* ------------------------------------- vocabulary of the aggregate checks
\* no listing of a token, trigger or variable fails
NoItemFailure == \A x \in DOMAIN itemFail : itemFail[x] = 0

\* how often the item of rank r of node x is in the result
Copies(x, r) ==
    Cardinality({i \in 1..Len(ret.items) :
                    ret.items[i].src = x /\ ret.items[i].rank = r})

RECURSIVE SumOver(_, _)
\* the sum of f[x] over the set S
SumOver(f, S) ==
    IF S = {} THEN 0
    ELSE LET x == CHOOSE y \in S : TRUE IN f[x] + SumOver(f, S \ {x})

\* C21: every wrapped item in the result of a bulk aggregator carries the
\* identity (name, path, URL) of the node whose listing returned it, under
\* every interleaving, and that identity is the one of a listed node.
C21_ItemCarriesItsNode ==
    (op \in RecursiveItemOps /\ ret.done) =>
        \A i \in 1..Len(ret.items) :
           /\ ret.items[i].owner = ret.items[i].src
           /\ ret.items[i].owner \in ListedNodes

\* C21 case: two tasks ran on two workers and the result holds items of two
\* nodes, those of the second node first
C21_Witness ==
    /\ op \in RecursiveItemOps /\ ret.done /\ nWorkers = 2
    /\ Len(ret.items) >= 2
    /\ ret.items[1].owner = 2
    /\ ret.items[Len(ret.items)].owner = 1

\* C22: when no listing fails, the result of a bulk token, trigger or
\* variable aggregator is, as a multiset, the union of the items listed for
\* the nodes: every such item exactly once and nothing else.
C22_ResultIsUnion ==
    (op \in RecursiveItemOps /\ ret.done /\ ret.err = "" /\ NoItemFailure) =>
        /\ \A x \in ListedNodes : \A r \in ExpectedRanks(x) : Copies(x, r) = 1
        /\ \A i \in 1..Len(ret.items) :
              /\ ret.items[i].src \in ListedNodes
              /\ ret.items[i].rank \in ExpectedRanks(ret.items[i].src)
        /\ Len(ret.items) =
              SumOver([x \in ListedNodes |-> Cardinality(ExpectedRanks(x))], ListedNodes)

\* C22 case: two nodes with more than a page of items each, nothing failed,
\* and the call returned all of them
C22_Witness ==
    /\ op \in RecursiveItemOps /\ ret.done /\ NoItemFailure
    /\ Cardinality(ListedNodes) = 2
    /\ \A x \in ListedNodes : Cardinality(ExpectedRanks(x)) = MaxItems
    /\ Len(ret.items) = 2 * MaxItems

\* C23: the dispatch of the token commands returns
\* ErrBothGroupIDAndProjectIDProvided and calls no client operation when both
\* a group ID and a project ID are given; otherwise it calls one client
\* operation, the recursive one when a group ID is given and the
\* single-project one when only a project ID is given.  A command line with
\* both flags is rejected before the dispatch, with no client operation
\* called; what fetchTriggers and fetchTokens do with both identifiers is
\* checked on the functions.
C23_DispatchOneOperation ==
    /\ fetchTriggers(TRUE, TRUE) = "none"
    /\ fetchTriggers(TRUE, FALSE) = "triggers"
    /\ fetchTriggers(FALSE, TRUE) = "triggers1"
    /\ fetchTriggers(FALSE, FALSE) \in {"triggers", "triggers1"}
    /\ fetchTokens(TRUE, TRUE) = "none"
    /\ fetchTokens(TRUE, FALSE) = "ptokens"
    /\ fetchTokens(FALSE, TRUE) = "ptokens1"
    /\ fetchTokens(FALSE, FALSE) \in {"ptokens", "ptokens1"}
    /\ (cmd \in TokenCommands /\ caller # "cmd") =>
          LET hasGroup == idKind # "empty"
              recursive == IF cmd = "ptt" THEN "triggers" ELSE "ptokens"
              single == IF cmd = "ptt" THEN "triggers1" ELSE "ptokens1"
          IN  CASE hasGroup /\ projectArg ->
                      /\ op = "none"
                      /\ caller = "exit"
                      /\ ret.done /\ ret.isNil /\ ret.err # ""
                      /\ getCount = 0 /\ flatCount = 0
                      /\ PoolUntouched
                [] hasGroup /\ ~projectArg -> op = recursive
                [] ~hasGroup /\ projectArg -> op = single
                [] OTHER -> op \in {recursive, single}

\* C23 case: tokens pat was given a project ID only, fetchTokens has called
\* the single-project operation and returned its tokens
C23_Witness ==
    /\ cmd = "pat" /\ idKind = "empty" /\ projectArg
    /\ op = "ptokens1"
    /\ caller = "fetched"
    /\ ret.done /\ ret.err = "" /\ ret.items # <<>>
    /\ PoolUntouched

\* C24: variables group with a non-empty group ID returns the variables of
\* that group and of every subgroup below it.
C24_VariablesGroupRecursive ==
    (cmd = "vargroup" /\ idKind = "valid" /\ caller = "exit" /\ ret.err = "") =>
        \A g \in {RootID} \cup Descendants(RootID) :
           \A r \in 1..itemLen[g] :
              \E i \in 1..Len(ret.items) :
                 ret.items[i].src = g /\ ret.items[i].rank = r

\* every entry of the map pm is in the map qm, unchanged
MapKept(pm, qm) ==
    \A k \in DOMAIN pm : k \in DOMAIN qm /\ qm[k] = pm[k]

\* the sequence a is the beginning of the sequence b
IsPrefix(a, b) ==
    /\ Len(a) <= Len(b)
    /\ \A i \in 1..Len(a) : b[i] = a[i]

\* the project IDs of a fetched listing
FetchedIDs(ps) == {ps[i].id : i \in 1..Len(ps)}

\* C25: the merge of GetProjectsRecursively checks and inserts in one
\* critical section and is first-writer-wins: an entry of the shared map is
\* never replaced by a later task, and a merge adds entries for absent IDs
\* only.
C25_FirstWriterWins ==
    [][/\ MapKept(projectMap, projectMap')
       /\ \A w \in Workers :
             (wk[w].pc = "pmerge" /\ wk'[w].pc = "ret") =>
                DOMAIN projectMap' = DOMAIN projectMap \cup FetchedIDs(wk[w].subs)]_vars

\* C25 case: both tasks have merged a project that both groups list, and the
\* map holds the copy of the second group's task, which came first
C25_Witness ==
    /\ op = "projects" /\ caller = "pwait" /\ wgP = 0 /\ nWorkers = 2
    /\ \A g \in GroupIDs : projFail[g] = 0
    /\ \E p \in DOMAIN projectMap :
          SharedProject(p) /\ p \in projSet[RootID] /\ projectMap[p].via # RootID

\* C26 as stated: what a task inserts does not depend on the content of the
\* shared map: after a task's merge the map holds, for every project the task
\* fetched, that task's copy.
C26_InsertIgnoresAggregate ==
    [][\A w \in Workers :
          (wk[w].pc = "pmerge" /\ wk'[w].pc = "ret") =>
             \A i \in 1..Len(wk[w].subs) :
                projectMap'[wk[w].subs[i].id] = wk[w].subs[i]]_vars

\* C26: what a task fetches does not depend on the shared aggregate; the
\* tasks of the group walk and of the token, trigger and variable aggregators
\* append exactly what they fetched; the only read of the aggregate is the
\* existence check of the merge of GetProjectsRecursively, under the lock: a
\* task inserts exactly those fetched projects whose ID is not in the map.
C26_OnlyMergeReadsAggregate ==
    [][\A w \in Workers :
          /\ (wk[w].pc = "list" /\ wk'[w].pc = "append") =>
                wk'[w].subs = ListSubGroups(wk[w].id, wk[w].page).items
          /\ (wk[w].pc = "plist" /\ wk'[w] # wk[w]) =>
                wk'[w].subs = fetchProjectsForGroupWithDedupe(wk[w].id, wk[w].page,
                                                              wk[w].subs).items
          /\ (wk[w].pc = "ilist" /\ wk'[w] # wk[w]) =>
                wk'[w].subs = ListFor(Kind(op), wk[w].id, includeInactive, wk[w].page,
                                      wk[w].subs).items
          /\ (wk[w].pc = "append" /\ wk'[w].pc # "append") =>
                groups' = groups \o wk[w].subs
          /\ (wk[w].pc = "iappend" /\ wk'[w].pc = "ret") =>
                items' = items \o wk[w].subs
          /\ (wk[w].pc = "pmerge" /\ wk'[w].pc = "ret") =>
                /\ MapKept(projectMap, projectMap')
                /\ DOMAIN projectMap' = DOMAIN projectMap \cup FetchedIDs(wk[w].subs)
                /\ \A i \in 1..Len(wk[w].subs) :
                      wk[w].subs[i].id \notin DOMAIN projectMap =>
                         projectMap'[wk[w].subs[i].id] = wk[w].subs[i]]_vars

\* C26 case: a task is about to merge a project whose ID another task has
\* already put into the map
C26_Witness ==
    \E w \in Workers :
       /\ wk[w].pc = "pmerge"
       /\ \E i \in 1..Len(wk[w].subs) :
             /\ wk[w].subs[i].id \in DOMAIN projectMap
             /\ projectMap[wk[w].subs[i].id].via # wk[w].subs[i].via

\* C27: the shared aggregate of an operation only grows: the slices are
\* extended at the end, the entries of the map stay, and a step that changes
\* an aggregate is the critical section of exactly one task (or the calling
\* goroutine storing the root before any task exists).
C27_AggregateOnlyGrows ==
    [][/\ IsPrefix(groups, groups')
       /\ IsPrefix(items, items')
       /\ MapKept(projectMap, projectMap')
       /\ groups' # groups =>
             \/ caller \in {"start", "flat"}
             \/ Cardinality({w \in Workers : wk[w].pc = "append" /\ wk'[w] # wk[w]}) = 1
       /\ items' # items =>
             Cardinality({w \in Workers : wk[w].pc = "iappend" /\ wk'[w] # wk[w]}) = 1
       /\ projectMap' # projectMap =>
             Cardinality({w \in Workers : wk[w].pc = "pmerge" /\ wk'[w] # wk[w]}) = 1]_vars

\* C27 case: one task has appended its items and another is in front of its
\* critical section with items of its own
C27_Witness ==
    /\ op \in RecursiveItemOps
    /\ items # <<>>
    /\ \E w \in Workers :
          /\ wk[w].pc = "iappend"
          /\ wk[w].subs # <<>>
          /\ wk[w].subs[1].owner # items[1].owner

\* the subgroups the listing of g serves on the pages before page
EarlierChildren(g, page) ==
    {Children(g)[i] : i \in 1..Min((page - 1) * PageSize, Len(Children(g)))}

\* C28: when a task of the tree walk is about to request page k+1 of a
\* group's subgroup listing, every child served on pages 1..k is in the shared
\* collection and its task has been registered and submitted, once.
C28_FanOutPerPage ==
    \A w \in Workers :
       (wk[w].kind = "subgroups" /\ wk[w].pc = "list") =>
          /\ listCount[wk[w].id] = wk[w].page - 1
          /\ \A c \in EarlierChildren(wk[w].id, wk[w].page) :
                /\ c \in Range(groups)
                /\ submitCount[c] = 1
          /\ wg >= Outstanding

\* C28 case: a task is about to request page 2 and the children of page 1
\* have been submitted
C28_Witness ==
    \E w \in Workers :
       /\ wk[w].kind = "subgroups" /\ wk[w].pc = "list" /\ wk[w].page = 2
       /\ Cardinality(EarlierChildren(wk[w].id, 2)) = PageSize
       /\ \A c \in EarlierChildren(wk[w].id, 2) : submitCount[c] = 1

\* C29: a page loop stops at the first page request that fails: it has
\* issued exactly the requests up to the failing page, and ends with the
\* error; the list* helpers return nil with it.  A loop that does not fail
\* requests every page once.
C29_StopsAtFailingPage ==
    /\ op \in RecursiveItemOps \cup SingleOps =>
          \A x \in DOMAIN itemLen :
             LET r == PageLoop(Kind(op), x, includeInactive, 1, <<>>)
             IN IF ListingFails(x)
                THEN r.err /\ r.items = <<>> /\ r.reqs = itemFail[x]
                ELSE ~r.err /\ r.reqs = NumPages(Cardinality(ServedRanks(x)))
    /\ \A g \in GroupIDs :
          LET r == ProjLoop(g, 1, <<>>)
          IN IF projFail[g] # 0
             THEN r.err /\ r.reqs = projFail[g]
             ELSE ~r.err /\ r.reqs = NumPages(Cardinality(projSet[g]))
    /\ \A w \in Workers :
          /\ (wk[w].kind = "items" /\ wk[w].pc = "ret" /\ ListingFails(wk[w].id)) =>
                /\ wk[w].subs = <<>>
                /\ wk[w].page = itemFail[wk[w].id]
                /\ \A i \in 1..Len(items) : items[i].owner # wk[w].id
          /\ wk[w].pc = "ilist" => itemFail[wk[w].id] \notin 1..(wk[w].page - 1)
          /\ wk[w].pc = "plist" => projFail[wk[w].id] \notin 1..(wk[w].page - 1)
    /\ caller = "list1" => itemFail[TargetID] \notin 1..(optPage - 1)

\* C29 case: the second page of a node's listing failed after the first was
\* served, and the node's task has ended
C29_Witness ==
    \E w \in Workers :
       /\ wk[w].kind = "items" /\ wk[w].pc = "ret"
       /\ itemFail[wk[w].id] = 2
       /\ ListingFails(wk[w].id)

\* C30: when the lookup of the root works and the first page of the root's
\* own subgroup listing fails, GetGroupsRecursively returns no error and
\* exactly the root.
C30_RootListingFailure ==
    (op = "groups" /\ ~rootFail /\ subFail[RootID] = 1 /\ ret.done) =>
        /\ ret.err = ""
        /\ ~ret.isNil
        /\ ret.items = <<RootID>>

\* C30 case: the root has subgroups, its listing failed on page 1 and the
\* call has returned
C30_Witness ==
    /\ op = "groups" /\ ~rootFail /\ subFail[RootID] = 1 /\ ret.done
    /\ Children(RootID) # <<>>
    /\ listCount[RootID] = 1

\* the subgroups of g served on the pages before the failing one
KeptChildren(g) ==
    {Children(g)[i] : i \in 1..Min((subFail[g] - 1) * PageSize, Len(Children(g)))}

\* C31: when a group's subgroup listing fails on a page k > 1, the children
\* of pages 1..k-1 are in the result with all their descendants, and the
\* children that page k and later pages would serve are missing with theirs.
C31_EarlierPagesKept ==
    \A g \in GroupIDs :
        (op = "groups" /\ ret.done /\ OnlyFailure(g) /\ subFail[g] > 1) =>
            /\ ret.err = ""
            /\ listCount[g] = subFail[g]
            /\ \A c \in KeptChildren(g) :
                  ({c} \cup Descendants(c)) \subseteq Range(ret.items)
            /\ \A c \in LostChildren(g) :
                  ({c} \cup Descendants(c)) \cap Range(ret.items) = {}

\* C31 case: page 2 of a listing failed; a child of page 1 is in the result
\* with a subgroup of its own, the child of page 2 is not
C31_Witness ==
    /\ op = "groups" /\ ret.done
    /\ \E g \in GroupIDs :
          /\ OnlyFailure(g) /\ subFail[g] = 2
          /\ LostChildren(g) # {}
          /\ \E c \in KeptChildren(g) :
                /\ Descendants(c) # {}
                /\ Descendants(c) \subseteq Range(ret.items)

\* C32: the first element of every successful result of GetGroupsRecursively
\* with a non-empty root is the root, under every interleaving.
C32_RootFirst ==
    /\ (op = "groups" /\ idKind = "valid" /\ groups # <<>>) => groups[1] = RootID
    /\ (op = "groups" /\ idKind = "valid" /\ ret.done /\ ret.err = "") =>
          /\ ret.items # <<>>
          /\ ret.items[1] = RootID

\* C32 case: two workers walked a tree and a deeper group was stored before a
\* subgroup of the root
C32_Witness ==
    /\ op = "groups" /\ ret.done /\ ret.err = "" /\ nWorkers = 2
    /\ \E i, j \in 1..Len(ret.items) :
          /\ i < j
          /\ ret.items[i] # RootID /\ parent[ret.items[i]] # RootID
          /\ ret.items[j] # RootID /\ parent[ret.items[j]] = RootID

\* C33: in one GetGroupsRecursively call at most one task is submitted per
\* group and no page of a group's listing is requested twice; when nothing
\* fails and the call has returned, exactly one task was submitted for every
\* group, and a group without subgroups made exactly one listing request.
C33_OneTaskPerGroup ==
    op = "groups" =>
        /\ \A g \in GroupIDs :
              /\ submitCount[g] <= 1
              /\ listCount[g] <= NumPages(Len(Children(g)))
              /\ listCount[g] > 0 => submitCount[g] = 1
        /\ (ret.done /\ NoWalkFailure) =>
              \A g \in GroupIDs :
                 /\ submitCount[g] = 1
                 /\ listCount[g] = NumPages(Len(Children(g)))
                 /\ Children(g) = <<>> => listCount[g] = 1

\* C33 case: a walk of a tree with a group of more than a page of subgroups
\* and a group without subgroups has returned
C33_Witness ==
    /\ op = "groups" /\ ret.done /\ NoWalkFailure
    /\ \E g \in GroupIDs : listCount[g] = 2
    /\ \E g \in GroupIDs : Children(g) = <<>> /\ listCount[g] = 1 /\ submitCount[g] = 1

\* C34: a token listing sends the active-only state filter with every page
\* request exactly when includeInactive is false: a remote that honours the
\* filter then yields active tokens only; with includeInactive true every
\* token the remote holds for a listed node, active or not, is in the result.
C34_StateFilter ==
    (op \in TokenOps /\ ret.done /\ ret.err = "") =>
        /\ (~includeInactive /\ remoteFilters) =>
              /\ \A i \in 1..Len(ret.items) : ret.items[i].active
              /\ \A x \in ListedNodes : ~ListingFails(x) =>
                    RanksOf(x) = SeqOfSet((1..itemLen[x]) \ inactive)
        /\ includeInactive =>
              \A x \in ListedNodes : ~ListingFails(x) =>
                 /\ RanksOf(x) = [i \in 1..itemLen[x] |-> i]
                 /\ \A i \in 1..Len(ret.items) :
                       ret.items[i].active = (ret.items[i].rank \notin inactive)

\* C34 case: with includeInactive an inactive token is in the result
C34_Witness ==
    /\ op \in TokenOps /\ ret.done /\ ret.err = "" /\ includeInactive
    /\ \E i, j \in 1..Len(ret.items) : ~ret.items[i].active /\ ret.items[j].active

\* C38: in the result of a bulk token, trigger or variable aggregator the
\* items of one node are next to each other and in the order the remote
\* served them.
C38_NodeBlocks ==
    (op \in RecursiveItemOps /\ ret.done /\ ret.err = "") =>
        \A i, j \in 1..Len(ret.items) :
           (i < j /\ ret.items[i].owner = ret.items[j].owner) =>
              /\ ret.items[i].rank < ret.items[j].rank
              /\ \A k \in i..j : ret.items[k].owner = ret.items[i].owner

\* C38 case: two nodes with more than a page of items each, the block of the
\* second node first
C38_Witness ==
    /\ op \in RecursiveItemOps /\ ret.done /\ ret.err = "" /\ nWorkers = 2
    /\ Len(ret.items) = 2 * MaxItems
    /\ ret.items[1].owner = 2
    /\ ret.items[MaxItems].owner = 2
    /\ ret.items[MaxItems + 1].owner = 1

\* the process has ended in a panic
Crashed == \E s \in DOMAIN sub : sub[s].pc = "panic"

\* the job submitter s hands to Submit next
NextJob(s) == JobID(s, sub[s].total - sub[s].left + 1)

\* C35: a Submit on a pool that was shut down ends in a panic that stops the
\* process: the queue takes no task once it is closed, the task of the
\* failed Submit is neither queued nor ever executed, and nothing runs after
\* the panic.
C35_SubmitAfterShutdownPanics ==
    [][/\ closed => Len(taskQueue') <= Len(taskQueue)
       /\ \A s \in DOMAIN sub :
             (closed /\ sub[s].pc = "submit" /\ sub'[s].pc # "submit") =>
                /\ sub'[s].pc \in {"panic", "dead"}
                /\ \E t \in DOMAIN sub : sub[t].pc = "submit" /\ sub'[t].pc = "panic"
                /\ taskQueue' = taskQueue
                /\ QueuedCount(NextJob(s)) = 0
                /\ runs'[NextJob(s)] = 0
       /\ Crashed => (runs' = runs /\ taskQueue' = taskQueue /\ wk' = wk)]_vars

\* C35 case: Submit panicked on the closed queue although the buffer had
\* room, after an earlier job of the same goroutine had been accepted
C35_Witness ==
    /\ closed
    /\ Len(taskQueue) < QueueCap
    /\ \E s \in DOMAIN sub :
          /\ sub[s].pc = "panic"
          /\ sub[s].left < sub[s].total
          /\ runs[NextJob(s)] = 0

\* C36: once the node collection is there, the fan-out of a bulk aggregator
\* completes and the call returns, for any number of nodes, also more than
\* the workers and the queue hold together.
C36_FanOutCompletes ==
    (caller \in {"padd", "iadd"}) ~> ret.done

\* C36 case: one worker is busy, the queue is full and the caller is held in
\* Submit with a fourth node
C36_Witness ==
    /\ op \in RecursiveItemOps
    /\ caller = "isubmit"
    /\ ~CanSubmit
    /\ \A w \in Workers : wk[w].pc # "idle"
    /\ ci > nWorkers + QueueCap

\* the tasks of call c that are registered and have not signalled yet
TasksOf(c) ==
    Cardinality({i \in 1..Len(taskQueue) :
                    taskQueue[i].kind = "call" /\ taskQueue[i].id.call = c})
    + Cardinality({w \in Workers : wk[w].kind = "call" /\ wk[w].id.call = c})
    + (IF calls[c].pc = "submit" THEN 1 ELSE 0)

\* how often the item of rank r of node x is in the sequence ts
CopiesIn(ts, x, r) ==
    Cardinality({i \in 1..Len(ts) : ts[i].owner = x /\ ts[i].rank = r})

\* C37: of two operations running at once on one Client each has its own
\* aggregate, mutex and join counter: the aggregate of a call holds items of
\* its own tasks only, its counter counts exactly its own unfinished tasks,
\* and it returns only when its own tasks are done, with every item of its
\* nodes whose listing worked, once each, whatever the other call does.
C37_CallsAreSeparate ==
    \A c \in DOMAIN calls :
       /\ \A i \in 1..Len(calls[c].agg) : calls[c].agg[i].by = c
       /\ calls[c].wg = TasksOf(c)
       /\ calls[c].ret.done =>
             /\ TasksOf(c) = 0
             /\ calls[c].ret.items = calls[c].agg
             /\ calls[c].ret.err # "" => flatFail # 0 /\ calls[c].agg = <<>>
             /\ calls[c].ret.err = "" =>
                   \A x \in GroupIDs : \A r \in 1..MaxItems :
                      CopiesIn(calls[c].ret.items, x, r) =
                         (IF itemFail[x] = 0 /\ r <= itemLen[x] THEN 1 ELSE 0)

\* C37 case: the first call has returned its items while tasks of the second
\* are still queued or running and its aggregate already holds items
C37_Witness ==
    /\ NumCalls >= 2 /\ DOMAIN calls = 1..NumCalls
    /\ calls[1].ret.done /\ calls[1].ret.items # <<>>
    /\ calls[2].wg > 0
    /\ calls[2].agg # <<>>
    /\ nWorkers = 2

====
